---- MODULE Spec2Model ----
(***************************************************************************)
(* Model of the log-parsing core of txt2docx (v0.0.4): vendor detection,   *)
(* the three vendor extractors and the generic key:value scan.             *)
(*                                                                         *)
(* A Python str is modelled as a sequence of atoms.  An atom is a maximal  *)
(* run of ASCII letters and digits, or one single other character (a       *)
(* space, a newline, a punctuation mark).  Every text has exactly one such *)
(* atomisation, so equality of atom sequences is equality of strings.      *)
(* The regular expressions of the source are translated element by element *)
(* into patterns over atoms and run by a backtracking matcher that tries   *)
(* the alternatives in the order Python's re module tries them.            *)
(***************************************************************************)
EXTENDS Integers, Sequences, FiniteSets, TLC

VARIABLES content, ip_address, data, branch, pc, file_list, txt_files,
          tmpl_path, doc, args, directory, switches, out, raw_text, commands

\* what one call of parse_device_info reads and writes
parseVars == <<content, ip_address, data, branch>>

\* what one call of sort_by_ip reads and writes
sortVars == <<file_list, txt_files>>

\* what the two report generators read and write
reportVars == <<tmpl_path, doc>>

\* what main reads and writes besides: the command line, the input
\* directory, the list of records and the messages printed
mainVars == <<args, directory, switches, out>>

\* what one call of split_commands reads and writes
splitVars == <<raw_text, commands>>

vars == <<parseVars, pc, sortVars, reportVars, mainVars, splitVars>>

-----------------------------------------------------------------------------
(* Characters and character classes *)

SP == " "
NL == "\n"

\* \s
WS == {SP, NL}

\* atoms made of digits only (\d+)
Digits ==
  {"0", "1", "2", "5", "7", "12", "15", "40", "070", "170", "0011", "2233", "4455",
   "4466", "250000", "1000000"}

\* the digit atoms that are one character long (a bare \d, or [*\d])
Digit1 == {"0", "1", "2", "5", "7"}

\* atoms made of letters and digits holding at least one letter
Words ==
  {"28C", "A", "Active", "BARCODE", "C3850", "CPU", "Cisco", "Clock", "Comware",
   "Control", "Core", "CoreSW1", "DEVICE", "DISPLAY", "Device", "FOC1", "FOC2", "False",
   "H3C", "HUAWEI", "HW1", "Huawei", "IOS", "ITEM", "Is", "Juniper", "MASTER", "Master",
   "Member", "Members", "Memory", "Model", "N", "NUMBER", "Normal", "Number", "OldSW",
   "Percentage", "Plane", "Pool", "Processor", "R", "RELEASE", "Ratio", "Ready",
   "Router", "S5130", "S5700", "SERIAL", "SN1", "SN2", "Serial", "Slot", "Software",
   "Stack", "Standby", "Switch", "System", "Total", "True", "Unknown", "Uptime",
   "Usage", "Used", "Using", "V200R010", "VRP", "Vendor", "Version", "WS", "average",
   "clock", "days", "device", "display", "filename", "five", "for", "hostname",
   "inventory", "irf", "is",
   "memory", "model", "number", "of", "seconds", "serial", "show", "slot", "software",
   "status", "switch", "synchronized", "sysname", "uptime", "usage", "utilization",
   "version", "yes"}

\* every other character is an atom of its own
Puncts == {"#", "%", "(", ")", "*", ",", "-", ".", "/", ":", "<", ">", "_"}

Alnum == Digits \cup Words

\* \w
WordCh == Alnum \cup {"_"}

\* \S
NonSpace == Alnum \cup Puncts

\* . (any character but a newline)
AnyCh == NonSpace \cup {SP}

\* the words made of the letters a-f and digits only
HexWords == {"28C", "A", "C3850"}

\* [0-9a-f:.] under re.I
HexMac == Digits \cup HexWords \cup {":", "."}

\* str.lower(), atom by atom: the words that hold an upper-case letter
LowerTab ==
  [a \in Words |->
    CASE a = "28C" -> "28c" [] a = "A" -> "a" [] a = "Active" -> "active"
      [] a = "BARCODE" -> "barcode" [] a = "C3850" -> "c3850" [] a = "CPU" -> "cpu"
      [] a = "Cisco" -> "cisco" [] a = "Clock" -> "clock"
      [] a = "Comware" -> "comware" [] a = "Control" -> "control"
      [] a = "Core" -> "core" [] a = "CoreSW1" -> "coresw1"
      [] a = "DEVICE" -> "device" [] a = "DISPLAY" -> "display"
      [] a = "Device" -> "device" [] a = "FOC1" -> "foc1" [] a = "FOC2" -> "foc2"
      [] a = "False" -> "false" [] a = "H3C" -> "h3c" [] a = "HUAWEI" -> "huawei"
      [] a = "HW1" -> "hw1" [] a = "Huawei" -> "huawei" [] a = "IOS" -> "ios"
      [] a = "ITEM" -> "item" [] a = "Is" -> "is" [] a = "Juniper" -> "juniper"
      [] a = "MASTER" -> "master" [] a = "Master" -> "master"
      [] a = "Member" -> "member" [] a = "Members" -> "members"
      [] a = "Memory" -> "memory" [] a = "Model" -> "model" [] a = "N" -> "n"
      [] a = "NUMBER" -> "number" [] a = "Normal" -> "normal"
      [] a = "Number" -> "number" [] a = "OldSW" -> "oldsw"
      [] a = "Percentage" -> "percentage" [] a = "Plane" -> "plane"
      [] a = "Pool" -> "pool" [] a = "Processor" -> "processor" [] a = "R" -> "r"
      [] a = "RELEASE" -> "release" [] a = "Ratio" -> "ratio"
      [] a = "Ready" -> "ready" [] a = "Router" -> "router" [] a = "S5130" -> "s5130"
      [] a = "S5700" -> "s5700" [] a = "SERIAL" -> "serial" [] a = "SN1" -> "sn1"
      [] a = "SN2" -> "sn2" [] a = "Serial" -> "serial" [] a = "Slot" -> "slot"
      [] a = "Software" -> "software" [] a = "Stack" -> "stack"
      [] a = "Standby" -> "standby" [] a = "Switch" -> "switch"
      [] a = "System" -> "system" [] a = "Total" -> "total" [] a = "True" -> "true"
      [] a = "Unknown" -> "unknown" [] a = "Uptime" -> "uptime"
      [] a = "Usage" -> "usage" [] a = "Used" -> "used" [] a = "Using" -> "using"
      [] a = "V200R010" -> "v200r010" [] a = "VRP" -> "vrp"
      [] a = "Vendor" -> "vendor" [] a = "Version" -> "version" [] a = "WS" -> "ws"
      [] OTHER -> a]

Lower(a) == IF a \in Words THEN LowerTab[a] ELSE a

LowerStr(s) == [i \in 1..Len(s) |-> Lower(s[i])]

\* str.strip()
RECURSIVE LStrip(_)
LStrip(s) == IF s # <<>> /\ Head(s) \in WS THEN LStrip(Tail(s)) ELSE s

RECURSIVE RStrip(_)
RStrip(s) ==
  IF s # <<>> /\ s[Len(s)] \in WS THEN RStrip(SubSeq(s, 1, Len(s) - 1)) ELSE s

Strip(s) == RStrip(LStrip(s))

-----------------------------------------------------------------------------
(* The re module, over atoms *)

\* A text as the matcher reads it: the atoms, and the atoms lower-cased (the
\* literals of a pattern compiled with re.I are compared with the latter).
Txt(s) == [o |-> s, l |-> LowerStr(s)]

\* One pattern element: the atoms it accepts, whether they are compared with
\* the text as written ("o") or lower-cased ("l"), its quantifier, its group.
One(c)      == [c |-> c, on |-> "o", q |-> "1", g |-> 0]
Plus(c)     == [c |-> c, on |-> "o", q |-> "+", g |-> 0]
Star(c)     == [c |-> c, on |-> "o", q |-> "*", g |-> 0]
LazyPlus(c) == [c |-> c, on |-> "o", q |-> "+?", g |-> 0]
Opt(c)      == [c |-> c, on |-> "o", q |-> "?", g |-> 0]
Bol         == [c |-> {}, on |-> "o", q |-> "^", g |-> 0]
Eol         == [c |-> {}, on |-> "o", q |-> "$", g |-> 0]
Grp(e, n)   == [e EXCEPT !.g = n]

\* a literal atom under re.I (a is lower-case), one of several such, and a
\* case-sensitive literal
Lit(a)    == [c |-> {a}, on |-> "l", q |-> "1", g |-> 0]
LitIn(c)  == [c |-> c, on |-> "l", q |-> "1", g |-> 0]
LitCS(a)  == [c |-> {a}, on |-> "o", q |-> "1", g |-> 0]

Accepts(t, e, pos) == IF e.on = "l" THEN t.l[pos] \in e.c ELSE t.o[pos] \in e.c

Fail == [ok |-> FALSE, start |-> 0, end |-> 0, caps |-> <<>>]

NoCaps == << <<0, 0>>, <<0, 0>>, <<0, 0>>, <<0, 0>> >>

\* number of consecutive atoms the element e accepts from pos on
RECURSIVE RunLen(_, _, _)
RunLen(t, e, pos) ==
  IF pos <= Len(t.o) /\ Accepts(t, e, pos) THEN 1 + RunLen(t, e, pos + 1) ELSE 0

RECURSIVE MatchFrom(_, _, _, _, _)
RECURSIVE TryRange(_, _, _, _, _, _, _, _, _)

\* the captures once the element e has taken the n atoms at pos
Captured(caps, e, pos, n) ==
  IF e.g > 0 THEN [caps EXCEPT ![e.g] = <<pos, pos + n>>] ELSE caps

\* the element k of pat takes n + i * step atoms (step is 1 or -1), for the
\* first i of lo..hi with which the rest of pat matches; the interval is
\* halved, and read in order, so that backtracking stays shallow
TryRange(t, pat, k, pos, caps, n, step, lo, hi) ==
  IF lo = hi
  THEN MatchFrom(t, pat, k + 1, pos + n + lo * step,
                 Captured(caps, pat[k], pos, n + lo * step))
  ELSE IF lo > hi THEN Fail
  ELSE LET mid  == (lo + hi) \div 2
           left == TryRange(t, pat, k, pos, caps, n, step, lo, mid)
       IN  IF left.ok THEN left
           ELSE TryRange(t, pat, k, pos, caps, n, step, mid + 1, hi)

\* match the elements k.. of pat at pos, the first way Python finds; a greedy
\* element gives back the atoms of its run one by one, a lazy one takes them
\* one by one
MatchFrom(t, pat, k, pos, caps) ==
  IF k > Len(pat) THEN [ok |-> TRUE, start |-> 0, end |-> pos, caps |-> caps]
  ELSE LET e == pat[k] IN
    CASE e.q = "^" ->
           IF pos = 1 \/ t.o[pos - 1] = NL
           THEN MatchFrom(t, pat, k + 1, pos, caps) ELSE Fail
      [] e.q = "$" ->
           IF pos = Len(t.o) + 1 \/ t.o[pos] = NL
           THEN MatchFrom(t, pat, k + 1, pos, caps) ELSE Fail
      [] e.q = "1" ->
           IF pos <= Len(t.o) /\ Accepts(t, e, pos)
           THEN MatchFrom(t, pat, k + 1, pos + 1, Captured(caps, e, pos, 1))
           ELSE Fail
      [] e.q = "+" ->
           TryRange(t, pat, k, pos, caps, RunLen(t, e, pos), -1,
                    0, RunLen(t, e, pos) - 1)
      [] e.q = "*" ->
           TryRange(t, pat, k, pos, caps, RunLen(t, e, pos), -1,
                    0, RunLen(t, e, pos))
      [] e.q = "+?" ->
           TryRange(t, pat, k, pos, caps, 1, 1, 0, RunLen(t, e, pos) - 1)
      [] e.q = "?" ->
           IF pos <= Len(t.o) /\ Accepts(t, e, pos)
           THEN TryRange(t, pat, k, pos, caps, 1, -1, 0, 1)
           ELSE MatchFrom(t, pat, k + 1, pos, Captured(caps, e, pos, 0))

\* the leftmost position of lo..hi at which pat matches, with that match; the
\* interval is halved, and read in order, so that the search stays shallow
RECURSIVE FirstMatch(_, _, _, _)
FirstMatch(t, pat, lo, hi) ==
  IF lo = hi THEN [MatchFrom(t, pat, 1, lo, NoCaps) EXCEPT !.start = lo]
  ELSE IF lo > hi THEN Fail
  ELSE LET mid  == (lo + hi) \div 2
           left == FirstMatch(t, pat, lo, mid)
       IN  IF left.ok THEN left ELSE FirstMatch(t, pat, mid + 1, hi)

\* re.search from position from: the leftmost match
SearchFrom(t, pat, from) == FirstMatch(t, pat, from, Len(t.o) + 1)

Search(t, pat) == SearchFrom(t, pat, 1)

\* re.finditer: the successive non-overlapping matches, left to right
RECURSIVE FindIterFrom(_, _, _)
FindIterFrom(t, pat, from) ==
  LET r == SearchFrom(t, pat, from)
  IN  IF ~r.ok THEN <<>>
      ELSE <<r>> \o FindIterFrom(t, pat,
                                 IF r.end > r.start THEN r.end ELSE r.end + 1)

FindIter(t, pat) == FindIterFrom(t, pat, 1)

\* m.group(n)
Group(t, m, n) == SubSeq(t.o, m.caps[n][1], m.caps[n][2] - 1)

\* the words of a literal, separated by single spaces: under re.I (the words
\* given lower-case), and case-sensitive
RECURSIVE Phrase(_)
Phrase(ws) ==
  IF Len(ws) = 1 THEN <<Lit(ws[1])>>
  ELSE <<Lit(ws[1]), One({SP})>> \o Phrase(Tail(ws))

RECURSIVE PhraseCS(_)
PhraseCS(ws) ==
  IF Len(ws) = 1 THEN <<LitCS(ws[1])>>
  ELSE <<LitCS(ws[1]), One({SP})>> \o PhraseCS(Tail(ws))

\* s in text.lower(), for a literal s of lower-case words
Contains(t, ws) == Search(t, Phrase(ws)).ok

-----------------------------------------------------------------------------
(* Python values and dicts *)

\* A value of a record: a str (its atoms), None, a bool, or a list of member
\* dicts.  The three fields are always present so that any two values compare.
Str(s)   == [t |-> "str", s |-> s, l |-> <<>>]
None     == [t |-> "none", s |-> <<>>, l |-> <<>>]
Bool(b)  == [t |-> "bool", s |-> IF b THEN <<"True">> ELSE <<"False">>, l |-> <<>>]
List(l)  == [t |-> "list", s |-> <<>>, l |-> l]

\* the sentinel "N/A"
NA == Str(<<"N", "/", "A">>)

\* bool(v) for a str or None: `not hostname`, `hostname or "N/A"`
Truthy(v) == v.t = "str" /\ v.s # <<>>

\* a dict is a function from keys (strs, as atoms) to values
EmptyDict == [k \in {} |-> None]
Put(d, k, v) == [x \in DOMAIN d \cup {k} |-> IF x = k THEN v ELSE d[x]]
Update(d, e) == [x \in DOMAIN d \cup DOMAIN e |-> IF x \in DOMAIN e THEN e[x] ELSE d[x]]
Get(d, k) == IF k \in DOMAIN d THEN d[k] ELSE None
GetOr(d, k, dflt) == IF k \in DOMAIN d THEN d[k] ELSE dflt

\* the keys the code writes
kFilename == <<"_", "filename">>
kVendor   == <<"vendor">>
kMembers  == <<"members">>
kIsStack  == <<"is", "_", "stack">>
kHostname == <<"hostname">>
kUptime   == <<"uptime">>
kNtp      == <<"ntp", "_", "status">>
kCpuUtil  == <<"cpu", "_", "utilization">>
kMemUtil  == <<"memory", "_", "utilization">>
kIos      == <<"ios", "_", "version">>
kSn       == <<"sn">>
kModel    == <<"model">>
kId       == <<"id">>
kRole     == <<"role">>
kCpu      == <<"cpu">>
kMemory   == <<"memory">>
kMac      == <<"mac", "_", "address">>
kStatus   == <<"status">>

\* m.group(n).strip() if m else "N/A", and the same without strip()
GroupStripOrNA(t, pat, n) ==
  LET m == Search(t, pat) IN IF m.ok THEN Str(Strip(Group(t, m, n))) ELSE NA

GroupOrNA(t, pat, n) ==
  LET m == Search(t, pat) IN IF m.ok THEN Str(Group(t, m, n)) ELSE NA

-----------------------------------------------------------------------------
(* Hostname resolution, shared by the three vendor extractors *)

\* r"^\s*hostname\s+(.+?)\s*$", re.I | re.M
re_hostname_config ==
  <<Bol, Star(WS), Lit("hostname"), Plus(WS), Grp(LazyPlus(AnyCh), 1), Star(WS), Eol>>

\* r"^\s*(?:sysname|hostname)\s+(.+?)\s*$", re.I | re.M
re_sysname_config ==
  <<Bol, Star(WS), LitIn({"sysname", "hostname"}), Plus(WS),
    Grp(LazyPlus(AnyCh), 1), Star(WS), Eol>>

\* r"(\S+?)#"
re_prompt_cisco == <<Grp(LazyPlus(NonSpace), 1), LitCS("#")>>

\* r"<(\S+?)>"
re_prompt_angle == <<LitCS("<"), Grp(LazyPlus(NonSpace), 1), LitCS(">")>>

\* ResolveHostname with the two strategies tried in the opposite order
ResolveHostnameConfigFirst(t, promptPat, configPat) ==
  LET m_config == Search(t, configPat)
      h1 == IF m_config.ok THEN Str(Strip(Group(t, m_config, 1))) ELSE None
      m_prompt == Search(t, promptPat)
      h2 == IF Truthy(h1) THEN h1
            ELSE IF m_prompt.ok THEN Str(Strip(Group(t, m_prompt, 1))) ELSE h1
  IN  IF Truthy(h2) THEN h2 ELSE NA

\* hostname = None; the prompt first; the configuration line `if not hostname`;
\* data["hostname"] = hostname or "N/A"
ResolveHostname(t, promptPat, configPat) ==
  LET m_prompt == Search(t, promptPat)
      h1 == IF m_prompt.ok THEN Str(Strip(Group(t, m_prompt, 1))) ELSE None
      m_config == Search(t, configPat)
      h2 == IF Truthy(h1) THEN h1
            ELSE IF m_config.ok THEN Str(Strip(Group(t, m_config, 1))) ELSE h1
  IN  IF Truthy(h2) THEN h2 ELSE NA

-----------------------------------------------------------------------------
(* parse_cisco *)

\* int(s) for the digit atoms of the vocabulary
IntOf(a) ==
  CASE a = "0" -> 0 [] a = "1" -> 1 [] a = "2" -> 2 [] a = "5" -> 5 [] a = "7" -> 7
    [] a = "12" -> 12 [] a = "15" -> 15 [] a = "40" -> 40 [] a = "070" -> 70
    [] a = "170" -> 170 [] a = "0011" -> 11 [] a = "2233" -> 2233
    [] a = "4455" -> 4455 [] a = "4466" -> 4466 [] a = "250000" -> 250000
    [] a = "1000000" -> 1000000

\* the next decimal digit of r / total and the remainder left after it
Digit(r, total) == <<(r * 10) \div total, (r * 10) % total>>

\* Hundredths without the rounding: the digits after the second are dropped
HundredthsTruncated(used, total) ==
  LET d1 == Digit(used % total, total)
      d2 == Digit(d1[2], total)
      d3 == Digit(d2[2], total)
      d4 == Digit(d3[2], total)
  IN  (used \div total) * 10000 + d1[1] * 1000 + d2[1] * 100 + d3[1] * 10 + d4[1]

\* used / total * 100 in hundredths of a percent, rounded to the nearest: the
\* quotient by long division, digit after digit, so that no product leaves
\* the 32-bit integers of TLC.  (An exact tie, which a binary float
\* may round either way, does not occur for the figures of the vocabulary.)
Hundredths(used, total) ==
  LET d1 == Digit(used % total, total)
      d2 == Digit(d1[2], total)
      d3 == Digit(d2[2], total)
      d4 == Digit(d3[2], total)
  IN  (used \div total) * 10000 + d1[1] * 1000 + d2[1] * 100 + d3[1] * 10 + d4[1]
        + (IF 2 * d4[2] >= total THEN 1 ELSE 0)

\* f"{(used / total * 100):.2f}%"
FormatPercent(used, total) ==
  LET h == Hundredths(used, total)
      f == h % 100
  IN  <<ToString(h \div 100), ".",
        IF f < 10 THEN "0" \o ToString(f) ELSE ToString(f), "%">>

\* s.split('/')[0]
RECURSIVE BeforeSlash(_)
BeforeSlash(s) ==
  IF s = <<>> \/ Head(s) = "/" THEN <<>> ELSE <<Head(s)>> \o BeforeSlash(Tail(s))

\* s.replace('*', '')
RECURSIVE DropStars(_)
DropStars(s) ==
  IF s = <<>> THEN <<>>
  ELSE (IF Head(s) = "*" THEN <<>> ELSE <<Head(s)>>) \o DropStars(Tail(s))

\* r"uptime is (.+)", re.I
re_uptime == Phrase(<<"uptime", "is">>) \o <<One({SP}), Grp(Plus(AnyCh), 1)>>

\* r"Clock is (.+)", re.I
re_cisco_clock == Phrase(<<"clock", "is">>) \o <<One({SP}), Grp(Plus(AnyCh), 1)>>

\* r"CPU utilization for five seconds: (\S+)", re.I
re_cisco_cpu ==
  Phrase(<<"cpu", "utilization", "for", "five", "seconds">>)
    \o <<LitCS(":"), One({SP}), Grp(Plus(NonSpace), 1)>>

\* r"Processor Pool Total:\s+(\d+)", re.I
re_cisco_total ==
  Phrase(<<"processor", "pool", "total">>) \o <<LitCS(":"), Plus(WS), Grp(One(Digits), 1)>>

\* r"Used:\s+(\d+)", re.I
re_cisco_used == <<Lit("used"), LitCS(":"), Plus(WS), Grp(One(Digits), 1)>>

\* r"^\s*([*\d])\s+\S+\s+([\w-]+)\s+([0-9a-f:.]+)\s+(\w+)", re.M | re.I
re_cisco_member ==
  <<Bol, Star(WS), Grp(One(Digit1 \cup {"*"}), 1), Plus(WS), Plus(NonSpace), Plus(WS),
    Grp(Plus(WordCh \cup {"-"}), 2), Plus(WS), Grp(Plus(HexMac), 3), Plus(WS),
    Grp(Plus(WordCh), 4)>>

\* r"Switch\s+(\d+)\s+SERIAL NUMBER\s+:\s+(\S+)", re.I | re.M
re_cisco_sn ==
  <<Lit("switch"), Plus(WS), Grp(One(Digits), 1), Plus(WS), Lit("serial"), One({SP}),
    Lit("number"), Plus(WS), LitCS(":"), Plus(WS), Grp(Plus(NonSpace), 2)>>

\* r"System Serial Number\s+:\s+(\S+)", re.I
re_cisco_sys_sn ==
  Phrase(<<"system", "serial", "number">>)
    \o <<Plus(WS), LitCS(":"), Plus(WS), Grp(Plus(NonSpace), 1)>>

\* r"Model Number\s+:\s+(\S+)", re.I
re_cisco_model ==
  Phrase(<<"model", "number">>) \o <<Plus(WS), LitCS(":"), Plus(WS), Grp(Plus(NonSpace), 1)>>

\* r"Cisco IOS.*, Version (\S+),", re.I
re_cisco_version ==
  Phrase(<<"cisco", "ios">>)
    \o <<Star(AnyCh), LitCS(","), One({SP}), Lit("version"), One({SP}),
         Grp(Plus(NonSpace), 1), LitCS(",")>>

\* {m.group(1): m.group(2) for m in matches}.get(id, dflt): the last match whose
\* first group is id decides
RECURSIVE MapGet(_, _, _, _)
MapGet(t, ms, id, dflt) ==
  IF ms = <<>> THEN dflt
  ELSE LET m == ms[Len(ms)]
       IN  IF Group(t, m, 1) = id THEN Str(Group(t, m, 2))
           ELSE MapGet(t, SubSeq(ms, 1, Len(ms) - 1), id, dflt)

\* CiscoSerialFor looking every member up under the index "1"
CiscoSerialForFirst(t, sn_matches, id) == MapGet(t, sn_matches, <<"1">>, NA)

\* member["sn"] = sn_map.get(member["id"], "N/A")
CiscoSerialFor(t, sn_matches, id) == MapGet(t, sn_matches, id, NA)

\* the members of the `show switch` branch: one per row match, the serial
\* number correlated by id
CiscoStackMembers(t) ==
  LET member_matches == FindIter(t, re_cisco_member)
      sn_matches == FindIter(t, re_cisco_sn)
  IN  [i \in 1..Len(member_matches) |->
         LET m  == member_matches[i]
             id == Strip(DropStars(Group(t, m, 1)))
         IN  (kId :> Str(id)) @@ (kModel :> Str(Group(t, m, 2)))
               @@ (kMac :> Str(Group(t, m, 3))) @@ (kStatus :> Str(Group(t, m, 4)))
               @@ (kSn :> CiscoSerialFor(t, sn_matches, id))]

\* data["memory_utilization"]
CiscoMemory(t) ==
  LET m_total == Search(t, re_cisco_total)
      m_used == Search(t, re_cisco_used)
  IN  IF m_total.ok /\ m_used.ok
      THEN LET total == IntOf(Group(t, m_total, 1)[1])
               used == IntOf(Group(t, m_used, 1)[1])
           IN  IF total > 0 THEN Str(FormatPercent(used, total)) ELSE Str(<<"0", "%">>)
      ELSE NA

\* the standalone branch of parse_cisco (`if not data["members"]`)
CiscoStandalone(t, d) ==
  LET member == (kId :> Str(<<"1">>)) @@ (kStatus :> Str(<<"Ready">>))
                  @@ (kCpu :> Get(d, kCpuUtil)) @@ (kMemory :> Get(d, kMemUtil))
                  @@ (kSn :> GroupOrNA(t, re_cisco_sys_sn, 1))
                  @@ (kModel :> GroupOrNA(t, re_cisco_model, 1))
  IN  Update(d, (kIos :> GroupOrNA(t, re_cisco_version, 1))
                  @@ (kSn :> member[kSn]) @@ (kModel :> member[kModel])
                  @@ (kMembers :> List(<<member>>))
                  @@ (kIsStack :> Bool(FALSE)))

\* data["cpu_utilization"]
CiscoCpu(t) ==
  LET m_cpu == Search(t, re_cisco_cpu)
  IN  IF m_cpu.ok THEN Str(BeforeSlash(Group(t, m_cpu, 1))) ELSE NA

\* the fields parse_cisco sets before it looks for members
CiscoScalars(t) ==
  (kVendor :> Str(<<"Cisco">>)) @@ (kMembers :> List(<<>>))
    @@ (kHostname :> ResolveHostname(t, re_prompt_cisco, re_hostname_config))
    @@ (kUptime :> GroupStripOrNA(t, re_uptime, 1))
    @@ (kNtp :> GroupStripOrNA(t, re_cisco_clock, 1))
    @@ (kCpuUtil :> CiscoCpu(t))
    @@ (kMemUtil :> CiscoMemory(t))

\* `if members: data["members"], data["is_stack"] = members, len(members) > 1`
SetMembers(d, members) ==
  Update(d, (kMembers :> List(members)) @@ (kIsStack :> Bool(Len(members) > 1)))

parse_cisco(t) ==
  LET members == IF Contains(t, <<"show", "switch">>) THEN CiscoStackMembers(t) ELSE <<>>
  IN  IF members # <<>> THEN SetMembers(CiscoScalars(t), members)
      ELSE CiscoStandalone(t, CiscoScalars(t))

-----------------------------------------------------------------------------
(* parse_huawei and parse_h3c *)

\* r"clock status\s*:\s*(.+)", re.I
re_huawei_clock ==
  Phrase(<<"clock", "status">>) \o <<Star(WS), LitCS(":"), Star(WS), Grp(Plus(AnyCh), 1)>>

\* r"Version \d\.\d+ \((.+?)\)", re.I
re_huawei_version ==
  <<Lit("version"), One({SP}), One(Digit1), LitCS("."), One(Digits), One({SP}),
    LitCS("("), Grp(LazyPlus(AnyCh), 1), LitCS(")")>>

\* r"^\s*(\d+)\s+(\w+)\s+\w+\s+([\w-]+)\s+([0-9A-Z]+)", re.M | re.I
re_huawei_member ==
  <<Bol, Star(WS), Grp(One(Digits), 1), Plus(WS), Grp(Plus(WordCh), 2), Plus(WS),
    Plus(WordCh), Plus(WS), Grp(Plus(WordCh \cup {"-"}), 3), Plus(WS),
    Grp(One(Alnum), 4)>>

\* r"CPU Usage for Slot\s+(\d+)\s+is\s+(\S+)", re.I | re.M
re_huawei_cpu ==
  Phrase(<<"cpu", "usage", "for", "slot">>)
    \o <<Plus(WS), Grp(One(Digits), 1), Plus(WS), Lit("is"), Plus(WS),
         Grp(Plus(NonSpace), 2)>>

\* r"Memory usage of slot\s+(\d+):\s+(\S+)", re.I | re.M
re_huawei_mem ==
  Phrase(<<"memory", "usage", "of", "slot">>)
    \o <<Plus(WS), Grp(One(Digits), 1), LitCS(":"), Plus(WS), Grp(Plus(NonSpace), 2)>>

\* r"BARCODE\s+:\s+(\S+)", re.I | re.M
re_huawei_barcode ==
  <<Lit("barcode"), Plus(WS), LitCS(":"), Plus(WS), Grp(Plus(NonSpace), 1)>>

\* r"ITEM\s+:\s+(\S+)", re.I | re.M
re_huawei_item ==
  <<Lit("item"), Plus(WS), LitCS(":"), Plus(WS), Grp(Plus(NonSpace), 1)>>

\* r"Control Plane\s+CPU Usage is\s*(\S+)" (case-sensitive)
re_huawei_cp_cpu ==
  PhraseCS(<<"Control", "Plane">>) \o <<Plus(WS)>> \o PhraseCS(<<"CPU", "Usage", "is">>)
    \o <<Star(WS), Grp(Plus(NonSpace), 1)>>

\* r"Memory Using Percentage Is\s*(\S+)" (case-sensitive)
re_huawei_mem_pct ==
  PhraseCS(<<"Memory", "Using", "Percentage", "Is">>)
    \o <<Star(WS), Grp(Plus(NonSpace), 1)>>

\* r"Clock status: (.+)", re.I
re_h3c_clock ==
  Phrase(<<"clock", "status">>) \o <<LitCS(":"), One({SP}), Grp(Plus(AnyCh), 1)>>

\* r"Comware Software, Version ([\d\.]+)", re.I
re_h3c_version ==
  Phrase(<<"comware", "software">>)
    \o <<LitCS(","), One({SP}), Lit("version"), One({SP}),
         Grp(Plus(Digits \cup {"."}), 1)>>

\* r"^\s*(\d+)\s+(\w+)\s+([\w-]+)\s+([A-Z0-9]+)", re.M | re.I
re_h3c_member ==
  <<Bol, Star(WS), Grp(One(Digits), 1), Plus(WS), Grp(Plus(WordCh), 2), Plus(WS),
    Grp(Plus(WordCh \cup {"-"}), 3), Plus(WS), Grp(One(Alnum), 4)>>

\* r"Slot\s+(\d+)\s+CPU usage:\s+(\S+)", re.I | re.M
re_h3c_cpu ==
  <<Lit("slot"), Plus(WS), Grp(One(Digits), 1), Plus(WS), Lit("cpu"), One({SP}),
    Lit("usage"), LitCS(":"), Plus(WS), Grp(Plus(NonSpace), 2)>>

\* r"Slot\s+(\d+)\s+memory usage\s+\(Ratio\):\s+(\S+)", re.I | re.M
re_h3c_mem ==
  <<Lit("slot"), Plus(WS), Grp(One(Digits), 1), Plus(WS), Lit("memory"), One({SP}),
    Lit("usage"), Plus(WS), LitCS("("), Lit("ratio"), LitCS(")"), LitCS(":"),
    Plus(WS), Grp(Plus(NonSpace), 2)>>

\* r"Device serial number:\s*(\S+)", re.I
re_h3c_sn ==
  Phrase(<<"device", "serial", "number">>)
    \o <<LitCS(":"), Star(WS), Grp(Plus(NonSpace), 1)>>

\* r"Device model:\s*(\S+)", re.I
re_h3c_model ==
  Phrase(<<"device", "model">>) \o <<LitCS(":"), Star(WS), Grp(Plus(NonSpace), 1)>>

\* r"CPU average usage:\s*(\S+)", re.I
re_h3c_avg_cpu ==
  Phrase(<<"cpu", "average", "usage">>) \o <<LitCS(":"), Star(WS), Grp(Plus(NonSpace), 1)>>

\* r"Memory usage:\s*(\S+)", re.I
re_h3c_mem_usage ==
  Phrase(<<"memory", "usage">>) \o <<LitCS(":"), Star(WS), Grp(Plus(NonSpace), 1)>>

\* member["cpu"], member["memory"] = cpu_map.get(member["id"]), mem_map.get(member["id"])
SlotFigure(t, matches, id) == MapGet(t, matches, id, None)

\* the members of the cluster branch of parse_huawei and parse_h3c: one per
\* row match, CPU and memory correlated by id
ClusterMembers(t, rowPat, cpuPat, memPat) ==
  LET member_matches == FindIter(t, rowPat)
      cpu_matches == FindIter(t, cpuPat)
      mem_matches == FindIter(t, memPat)
  IN  [i \in 1..Len(member_matches) |->
         LET m  == member_matches[i]
             id == Group(t, m, 1)
         IN  (kId :> Str(id)) @@ (kRole :> Str(Group(t, m, 2)))
               @@ (kModel :> Str(Group(t, m, 3))) @@ (kSn :> Str(Group(t, m, 4)))
               @@ (kCpu :> SlotFigure(t, cpu_matches, id))
               @@ (kMemory :> SlotFigure(t, mem_matches, id))]

\* the index of the first member whose role.lower() == 'master', 0 if none
RECURSIVE FirstMaster(_, _)
FirstMaster(members, i) ==
  IF i > Len(members) THEN 0
  ELSE IF LowerStr(GetOr(members[i], kRole, Str(<<>>)).s) = <<"master">> THEN i
       ELSE FirstMaster(members, i + 1)

\* data.update({k: m.get(k) for k in
\*              ['cpu_utilization', 'memory_utilization', 'sn', 'model']})
PromoteMaster(d, m) ==
  Update(d, (kCpuUtil :> Get(m, kCpuUtil)) @@ (kMemUtil :> Get(m, kMemUtil))
              @@ (kSn :> Get(m, kSn)) @@ (kModel :> Get(m, kModel)))

\* `if members:` of the cluster branch: the members, is_stack, and the
\* promotion of the first master
ClusterBranch(d, members) ==
  IF FirstMaster(members, 1) > 0
  THEN PromoteMaster(SetMembers(d, members), members[FirstMaster(members, 1)])
  ELSE SetMembers(d, members)

\* StandaloneBranch without the copy of the member's figures to the top level
StandaloneBranchUnpromoted(t, d, snPat, modelPat, cpuPat, memPat) ==
  LET member == (kId :> Str(<<"1">>)) @@ (kSn :> GroupOrNA(t, snPat, 1))
                  @@ (kModel :> GroupOrNA(t, modelPat, 1))
                  @@ (kCpu :> GroupOrNA(t, cpuPat, 1))
                  @@ (kMemory :> GroupOrNA(t, memPat, 1))
  IN  Update(d, (kMembers :> List(<<member>>)) @@ (kIsStack :> Bool(FALSE)))

\* the standalone branch of parse_huawei and parse_h3c
StandaloneBranch(t, d, snPat, modelPat, cpuPat, memPat) ==
  LET member == (kId :> Str(<<"1">>)) @@ (kSn :> GroupOrNA(t, snPat, 1))
                  @@ (kModel :> GroupOrNA(t, modelPat, 1))
                  @@ (kCpu :> GroupOrNA(t, cpuPat, 1))
                  @@ (kMemory :> GroupOrNA(t, memPat, 1))
  IN  Update(d, (kSn :> member[kSn]) @@ (kModel :> member[kModel])
                  @@ (kCpuUtil :> member[kCpu]) @@ (kMemUtil :> member[kMemory])
                  @@ (kMembers :> List(<<member>>))
                  @@ (kIsStack :> Bool(FALSE)))

\* the fields parse_huawei sets before it looks for members
HuaweiScalars(t) ==
  (kVendor :> Str(<<"Huawei">>)) @@ (kMembers :> List(<<>>))
    @@ (kHostname :> ResolveHostname(t, re_prompt_angle, re_sysname_config))
    @@ (kUptime :> GroupStripOrNA(t, re_uptime, 1))
    @@ (kNtp :> GroupStripOrNA(t, re_huawei_clock, 1))
    @@ (kIos :> GroupOrNA(t, re_huawei_version, 1))

parse_huawei(t) ==
  LET members == IF Contains(t, <<"display", "device">>)
                 THEN ClusterMembers(t, re_huawei_member, re_huawei_cpu, re_huawei_mem)
                 ELSE <<>>
  IN  IF members # <<>> THEN ClusterBranch(HuaweiScalars(t), members)
      ELSE StandaloneBranch(t, HuaweiScalars(t), re_huawei_barcode, re_huawei_item,
                            re_huawei_cp_cpu, re_huawei_mem_pct)

\* the fields parse_h3c sets before it looks for members
H3cScalars(t) ==
  (kVendor :> Str(<<"H3C">>)) @@ (kMembers :> List(<<>>))
    @@ (kHostname :> ResolveHostname(t, re_prompt_angle, re_sysname_config))
    @@ (kUptime :> GroupStripOrNA(t, re_uptime, 1))
    @@ (kNtp :> GroupStripOrNA(t, re_h3c_clock, 1))
    @@ (kIos :> GroupOrNA(t, re_h3c_version, 1))

parse_h3c(t) ==
  LET members == IF Contains(t, <<"display", "irf">>) \/ Contains(t, <<"display", "device">>)
                 THEN ClusterMembers(t, re_h3c_member, re_h3c_cpu, re_h3c_mem)
                 ELSE <<>>
  IN  IF members # <<>> THEN ClusterBranch(H3cScalars(t), members)
      ELSE StandaloneBranch(t, H3cScalars(t), re_h3c_sn, re_h3c_model, re_h3c_avg_cpu,
                            re_h3c_mem_usage)

-----------------------------------------------------------------------------
(* parse_device_info *)

\* r"Cisco IOS|\s#show", re.I
FingerprintCisco(t) ==
  \/ Search(t, Phrase(<<"cisco", "ios">>)).ok
  \/ Search(t, <<One(WS), LitCS("#"), Lit("show")>>).ok

\* FingerprintHuawei without the alternative `display device`
FingerprintHuaweiWithoutCommand(t) ==
  \/ Search(t, <<Lit("vrp"), One({SP}), LitCS("("), Lit("r"), LitCS(")"), One({SP}),
                 Lit("software")>>).ok
  \/ Search(t, <<Lit("huawei")>>).ok
  \/ Search(t, <<LitCS("<"), Lit("huawei"), LitCS(">")>>).ok

\* r"VRP \(R\) software|HUAWEI|<HUAWEI>|display device", re.I
FingerprintHuawei(t) ==
  \/ Search(t, <<Lit("vrp"), One({SP}), LitCS("("), Lit("r"), LitCS(")"), One({SP}),
                 Lit("software")>>).ok
  \/ Search(t, <<Lit("huawei")>>).ok
  \/ Search(t, <<LitCS("<"), Lit("huawei"), LitCS(">")>>).ok
  \/ Search(t, Phrase(<<"display", "device">>)).ok

\* r"Comware Software|<H3C>|display irf", re.I
FingerprintH3c(t) ==
  \/ Search(t, Phrase(<<"comware", "software">>)).ok
  \/ Search(t, <<LitCS("<"), Lit("h3c"), LitCS(">")>>).ok
  \/ Search(t, Phrase(<<"display", "irf">>)).ok

\* r"^\s*(.+?)\s*:\s*(.+?)\s*$", re.M
re_key_value ==
  <<Bol, Star(WS), Grp(LazyPlus(AnyCh), 1), Star(WS), LitCS(":"), Star(WS),
    Grp(LazyPlus(AnyCh), 2), Star(WS), Eol>>

\* k.lower().replace(" ", "_")
NormalizeKey(k) == [i \in 1..Len(k) |-> IF k[i] = SP THEN "_" ELSE Lower(k[i])]

\* parsed_data[k.lower().replace(" ", "_")] = v.strip(), match after match
RECURSIVE ScanKeyValues(_, _, _, _)
ScanKeyValues(t, ms, i, d) ==
  IF i > Len(ms) THEN d
  ELSE ScanKeyValues(t, ms, i + 1,
                     Put(d, NormalizeKey(Group(t, ms[i], 1)),
                         Str(Strip(Group(t, ms[i], 2)))))

\* the else branch of parse_device_info
parse_unknown(t) ==
  ScanKeyValues(t, FindIter(t, re_key_value), 1,
                (kVendor :> Str(<<"Unknown">>)) @@ (kIsStack :> Bool(FALSE))
                  @@ (kMembers :> List(<<EmptyDict>>)))

\* the extractor parse_device_info dispatches to
Dispatch(t) ==
  IF FingerprintCisco(t) THEN "Cisco"
  ELSE IF FingerprintHuawei(t) THEN "Huawei"
  ELSE IF FingerprintH3c(t) THEN "H3C"
  ELSE "Unknown"

\* data = {"_filename": ip_address}; data.update(parsed_data)
Returned(ip, parsed_data) == Update((kFilename :> Str(ip)), parsed_data)

-----------------------------------------------------------------------------
(* File names and sort_by_ip *)

\* A file name is a sequence of characters.
DigitChars == {"0", "1", "2", "3", "4", "5", "6", "7", "8", "9"}

DigitVal(c) ==
  CASE c = "0" -> 0 [] c = "1" -> 1 [] c = "2" -> 2 [] c = "3" -> 3 [] c = "4" -> 4
    [] c = "5" -> 5 [] c = "6" -> 6 [] c = "7" -> 7 [] c = "8" -> 8 [] c = "9" -> 9

\* the number of characters \d{1,n} takes at the head of s (greedy)
RECURSIVE DigitRun(_, _)
DigitRun(s, n) ==
  IF n = 0 \/ s = <<>> \/ Head(s) \notin DigitChars THEN 0
  ELSE 1 + DigitRun(Tail(s), n - 1)

\* s without its first n characters
Drop(s, n) == SubSeq(s, n + 1, Len(s))

\* k times `\d{1,3}\.` at the head of s: the number of characters matched, or
\* -1.  A shorter run of digits could not be followed by the dot either.
RECURSIVE OctetsDot(_, _)
OctetsDot(s, k) ==
  IF k = 0 THEN 0
  ELSE LET r == DigitRun(s, 3)
       IN  IF r = 0 \/ Len(s) <= r \/ s[r + 1] # "." THEN -1
           ELSE LET rest == OctetsDot(Drop(s, r + 1), k - 1)
                IN  IF rest < 0 THEN -1 ELSE r + 1 + rest

\* `.*\.txt$` on what follows the address
EndsWithTxt(s) == Len(s) >= 4 /\ SubSeq(s, Len(s) - 3, Len(s)) = <<".", "t", "x", "t">>

\* ip_pattern.match(name): r"^(\d{1,3}\.\d{1,3}\.\d{1,3}\.\d{1,3}).*\.txt$"
ip_pattern_match(name) ==
  LET three == OctetsDot(name, 3)
      r == IF three < 0 THEN 0 ELSE DigitRun(Drop(name, three), 3)
  IN  IF three >= 0 /\ r > 0 /\ EndsWithTxt(Drop(name, three + r))
      THEN [ok |-> TRUE, g1 |-> SubSeq(name, 1, three + r)]
      ELSE [ok |-> FALSE, g1 |-> <<>>]

\* ip_str.split('.')
RECURSIVE SplitDots(_, _)
SplitDots(s, cur) ==
  IF s = <<>> THEN <<cur>>
  ELSE IF Head(s) = "." THEN <<cur>> \o SplitDots(Tail(s), <<>>)
       ELSE SplitDots(Tail(s), Append(cur, Head(s)))

\* int(octet) for a string of digits
RECURSIVE OctetValue(_, _)
OctetValue(s, acc) ==
  IF s = <<>> THEN acc ELSE OctetValue(Tail(s), acc * 10 + DigitVal(Head(s)))

\* the greatest value of an octet
MaxOctet == 255

\* ipaddress.ip_address(ip_str): the four octets, or a ValueError.  The names
\* of the model have no octet with a leading zero.
ip_address_of(ip_str) ==
  LET parts == SplitDots(ip_str, <<>>)
      good(o) == /\ o # <<>> /\ Len(o) <= 3
                 /\ \A i \in 1..Len(o) : o[i] \in DigitChars
                 /\ OctetValue(o, 0) <= MaxOctet
  IN  IF Len(parts) = 4 /\ \A i \in 1..4 : good(parts[i])
      THEN [ok |-> TRUE, v |-> [i \in 1..4 |-> OctetValue(parts[i], 0)]]
      ELSE [ok |-> FALSE, v |-> <<>>]

\* "255.255.255.255"
LastAddress ==
  <<"2", "5", "5", ".", "2", "5", "5", ".", "2", "5", "5", ".", "2", "5", "5">>

\* ip_key with the address 0.0.0.0 where ip_address raises ValueError
ip_key_first(p) ==
  LET match == ip_pattern_match(p.name)
      ip_str == IF match.ok THEN match.g1 ELSE LastAddress
      a == ip_address_of(ip_str)
  IN  IF a.ok THEN a.v ELSE <<0, 0, 0, 0>>

\* ip_key(p): the address as its four octets, most significant first
ip_key(p) ==
  LET match == ip_pattern_match(p.name)
      ip_str == IF match.ok THEN match.g1 ELSE LastAddress
      a == ip_address_of(ip_str)
  IN  IF a.ok THEN a.v ELSE ip_address_of(LastAddress).v

\* a < b for two addresses: the order of their 32-bit values
AddressLess(a, b) ==
  \E i \in 1..4 : a[i] < b[i] /\ \A j \in 1..(i - 1) : a[j] = b[j]

\* x put into the sorted list l after every element whose key is not greater
RECURSIVE InsertByKey(_, _)
InsertByKey(l, x) ==
  IF l = <<>> THEN <<x>>
  ELSE IF AddressLess(ip_key(x), ip_key(Head(l))) THEN <<x>> \o l
       ELSE <<Head(l)>> \o InsertByKey(Tail(l), x)

\* sorted(l, key=ip_key), which keeps the input order of equal keys
RECURSIVE SortedByKey(_)
SortedByKey(l) ==
  IF l = <<>> THEN <<>>
  ELSE InsertByKey(SortedByKey(SubSeq(l, 1, Len(l) - 1)), l[Len(l)])

sort_by_ip(l) == SortedByKey(l)

\* the file names the model reads
FileNames ==
  <<
    \* 1: 2.2.2.2.txt (an address below ten in every octet)
    <<"2", ".", "2", ".", "2", ".", "2", ".", "t", "x", "t">>,
    \* 2: 10.0.0.1.txt
    <<"1", "0", ".", "0", ".", "0", ".", "1", ".", "t", "x", "t">>,
    \* 3: 10.0.0.5.txt
    <<"1", "0", ".", "0", ".", "0", ".", "5", ".", "t", "x", "t">>,
    \* 4: 10.0.0.1-backup.txt (the same address as 2, with a suffix before the extension)
    <<"1", "0", ".", "0", ".", "0", ".", "1", "-", "b", "a", "c", "k", "u", "p", ".", "t", "x", "t">>,
    \* 5: notes.txt (no leading address)
    <<"n", "o", "t", "e", "s", ".", "t", "x", "t">>,
    \* 6: 999.1.1.1.txt (a first octet out of range)
    <<"9", "9", "9", ".", "1", ".", "1", ".", "1", ".", "t", "x", "t">>,
    \* 7: 10.0.0.256.txt (a last octet out of range)
    <<"1", "0", ".", "0", ".", "0", ".", "2", "5", "6", ".", "t", "x", "t">>,
    \* 8: 255.255.255.255.txt (the highest address)
    <<"2", "5", "5", ".", "2", "5", "5", ".", "2", "5", "5", ".", "2", "5", "5", ".", "t", "x", "t">>,
    \* 9: 10.0.1.txt (three octets only)
    <<"1", "0", ".", "0", ".", "1", ".", "t", "x", "t">>
  >>

\* a file list holds at most MaxFiles files
MaxFiles == 3

Files == {[name |-> FileNames[i]] : i \in 1..Len(FileNames)}

\* the lists of at most n different files
RECURSIVE FileLists(_)
FileLists(n) ==
  IF n = 0 THEN {<<>>}
  ELSE LET shorter == FileLists(n - 1)
           longest == {l \in shorter : Len(l) = n - 1}
       IN  shorter \cup
           {Append(x[1], x[2]) :
              x \in {y \in longest \X Files : \A i \in 1..Len(y[1]) : y[1][i] # y[2]}}

-----------------------------------------------------------------------------
(* The document and generate_multi_word *)

\* A document body is a sequence of elements: a page-break paragraph, a
\* heading, a paragraph (its runs, each a text) or a table (its rows, each a
\* sequence of cell texts).  The four fields are always present.  The fixed
\* Chinese captions of the source are written as one atom each.
PageBreak          == [kind |-> "page_break", level |-> 0, runs |-> <<>>, rows |-> <<>>]
Heading(text, lvl) == [kind |-> "heading", level |-> lvl, runs |-> <<text>>, rows |-> <<>>]
Paragraph(runs)    == [kind |-> "paragraph", level |-> 0, runs |-> runs, rows |-> <<>>]
Table(rows)        == [kind |-> "table", level |-> 0, runs |-> <<>>, rows |-> rows]

\* str(v) for a str, None or a bool
PyStr(v) == IF v.t = "none" THEN <<"None">> ELSE v.s

\* datetime.now().strftime('%Y-%m-%d %H:%M:%S'), one atom
report_time == <<"2026-01-01 00:00:00">>

\* ['hostname', 'vendor', 'model', 'ios_version']
OverviewKeys == <<kHostname, kVendor, kModel, kIos>>

\* ['uptime', 'ntp_status', 'cpu_utilization', 'memory_utilization']
StatusKeys == <<kUptime, kNtp, kCpuUtil, kMemUtil>>

\* ['主机名', '厂商', '主设备型号', '软件版本']
OverviewHeaders == <<<<"Hostname">>, <<"Vendor">>, <<"MasterModel">>, <<"SoftwareVersion">>>>

\* ['运行时间', 'NTP状态', 'CPU使用率(主)', '内存使用率(主)']
StatusHeaders == <<<<"Uptime">>, <<"NtpStatus">>, <<"MasterCpu">>, <<"MasterMemory">>>>

\* ["id", "role", "model", "sn", "cpu", "memory", "status"]
MemberKeys == <<kId, kRole, kModel, kSn, kCpu, kMemory, kStatus>>

\* ["ID/Slot", "角色", "型号", "序列号", "CPU", "内存", "状态"]
MemberHeaders ==
  <<<<"ID", "/", "Slot">>, <<"Role">>, <<"Model">>, <<"SerialNumber">>, <<"CPU">>,
    <<"Memory">>, <<"Status">>>>

\* the cells str(d.get(k, "N/A")) for k in keys
CellRow(d, keys) == [i \in 1..Len(keys) |-> PyStr(GetOr(d, keys[i], NA))]

\* the two-row table of one section of a device page
SectionTable(d, headers, keys) == Table(<<headers, CellRow(d, keys)>>)

\* bool(members) for data.get("members", []): a list or, after the generic
\* scan, a str
HasMembers(members) ==
  IF members.t = "list" THEN members.l # <<>> ELSE Truthy(members)

\* `for member in members: ... member.get(k, "N/A")` raises AttributeError
\* when members is a str, whose elements are strs
MemberLoopRaises(members) == HasMembers(members) /\ members.t # "list"

\* the member table: the header row, then one row per member
MemberTable(members) ==
  Table(<<MemberHeaders>> \o [i \in 1..Len(members.l) |-> CellRow(members.l[i], MemberKeys)])

\* f"交换机状态报告 - {data.get('_filename')} ({data.get('hostname')})"
PageTitle(d) ==
  <<"SwitchStatusReport", " ", "-", " ">> \o PyStr(Get(d, kFilename))
    \o <<" ", "(">> \o PyStr(Get(d, kHostname)) \o <<")">>

\* what one turn of the loop of generate_multi_word adds for the i-th record
DevicePage(i, d) ==
  LET members == GetOr(d, kMembers, List(<<>>))
  IN  (IF i > 1 THEN <<PageBreak>> ELSE <<>>)
        \o <<Heading(PageTitle(d), 0),
             Heading(<<"DeviceOverview">>, 2),
             SectionTable(d, OverviewHeaders, OverviewKeys),
             Heading(<<"RunningStatus">>, 2),
             SectionTable(d, StatusHeaders, StatusKeys),
             Heading(<<"MemberDetails">>, 2)>>
        \o (IF HasMembers(members) THEN <<MemberTable(members)>> ELSE <<>>)
        \o <<Paragraph(<<<<NL, "ReportTime", ":">> \o report_time>>)>>

RECURSIVE DevicePages(_, _)
DevicePages(records, i) ==
  IF i > Len(records) THEN <<>>
  ELSE DevicePage(i, records[i]) \o DevicePages(records, i + 1)

\* a document that was not written
NoDocument == [saved |-> FALSE, raised |-> FALSE, body |-> <<>>, header |-> <<>>]

\* an exception left the document unsaved
Unsaved == [saved |-> FALSE, raised |-> TRUE, body |-> <<>>, header |-> <<>>]

\* doc.save(out_path)
Saved(body, header) == [saved |-> TRUE, raised |-> FALSE, body |-> body, header |-> header]

\* generate_multi_word(switches, out_path): the document saved, or the
\* exception that left nothing saved
generate_multi_word(records) ==
  IF \E i \in 1..Len(records) :
       MemberLoopRaises(GetOr(records[i], kMembers, List(<<>>)))
  THEN Unsaved
  ELSE Saved(DevicePages(records, 1), <<>>)

-----------------------------------------------------------------------------
(* Templates and replace_template_multi *)

\* the lower-case words of the keys a record may hold
KeyWords ==
  {"28c", "a", "active", "address", "average", "barcode", "c3850", "cisco", "clock",
   "comware", "control", "core", "coresw1", "cpu", "days", "device", "display", "false",
   "filename", "five", "foc1", "foc2", "for", "h3c", "hostname", "huawei", "hw1", "id",
   "ios", "irf", "is", "item", "juniper", "mac", "master", "member", "members",
   "memory", "model", "n", "normal", "ntp", "number", "of", "oldsw", "percentage",
   "plane", "pool", "processor", "r", "ratio", "ready", "release", "role", "router",
   "s5130", "s5700", "seconds", "serial", "show", "slot", "sn", "sn1", "sn2",
   "software", "stack", "standby", "status", "switch", "synchronized", "sysname",
   "system", "total", "true", "unknown", "uptime", "usage", "used", "using",
   "utilization", "v200r010", "vendor", "version", "vrp", "ws", "yes"}

\* a.upper() for the atoms of a key
UpperTab ==
  [a \in KeyWords |->
    CASE a = "28c" -> "28C" [] a = "a" -> "A" [] a = "active" -> "ACTIVE"
      [] a = "address" -> "ADDRESS" [] a = "average" -> "AVERAGE"
      [] a = "barcode" -> "BARCODE" [] a = "c3850" -> "C3850" [] a = "cisco" -> "CISCO"
      [] a = "clock" -> "CLOCK" [] a = "comware" -> "COMWARE"
      [] a = "control" -> "CONTROL" [] a = "core" -> "CORE"
      [] a = "coresw1" -> "CORESW1" [] a = "cpu" -> "CPU" [] a = "days" -> "DAYS"
      [] a = "device" -> "DEVICE" [] a = "display" -> "DISPLAY"
      [] a = "false" -> "FALSE" [] a = "filename" -> "FILENAME" [] a = "five" -> "FIVE"
      [] a = "foc1" -> "FOC1" [] a = "foc2" -> "FOC2" [] a = "for" -> "FOR"
      [] a = "h3c" -> "H3C" [] a = "hostname" -> "HOSTNAME" [] a = "huawei" -> "HUAWEI"
      [] a = "hw1" -> "HW1" [] a = "id" -> "ID" [] a = "ios" -> "IOS"
      [] a = "irf" -> "IRF" [] a = "is" -> "IS" [] a = "item" -> "ITEM"
      [] a = "juniper" -> "JUNIPER" [] a = "mac" -> "MAC" [] a = "master" -> "MASTER"
      [] a = "member" -> "MEMBER" [] a = "members" -> "MEMBERS"
      [] a = "memory" -> "MEMORY" [] a = "model" -> "MODEL" [] a = "n" -> "N"
      [] a = "normal" -> "NORMAL" [] a = "ntp" -> "NTP" [] a = "number" -> "NUMBER"
      [] a = "of" -> "OF" [] a = "oldsw" -> "OLDSW" [] a = "percentage" -> "PERCENTAGE"
      [] a = "plane" -> "PLANE" [] a = "pool" -> "POOL"
      [] a = "processor" -> "PROCESSOR" [] a = "r" -> "R" [] a = "ratio" -> "RATIO"
      [] a = "ready" -> "READY" [] a = "release" -> "RELEASE" [] a = "role" -> "ROLE"
      [] a = "router" -> "ROUTER" [] a = "s5130" -> "S5130" [] a = "s5700" -> "S5700"
      [] a = "seconds" -> "SECONDS" [] a = "serial" -> "SERIAL" [] a = "show" -> "SHOW"
      [] a = "slot" -> "SLOT" [] a = "sn" -> "SN" [] a = "sn1" -> "SN1"
      [] a = "sn2" -> "SN2" [] a = "software" -> "SOFTWARE" [] a = "stack" -> "STACK"
      [] a = "standby" -> "STANDBY" [] a = "status" -> "STATUS"
      [] a = "switch" -> "SWITCH" [] a = "synchronized" -> "SYNCHRONIZED"
      [] a = "sysname" -> "SYSNAME" [] a = "system" -> "SYSTEM"
      [] a = "total" -> "TOTAL" [] a = "true" -> "TRUE" [] a = "unknown" -> "UNKNOWN"
      [] a = "uptime" -> "UPTIME" [] a = "usage" -> "USAGE" [] a = "used" -> "USED"
      [] a = "using" -> "USING" [] a = "utilization" -> "UTILIZATION"
      [] a = "v200r010" -> "V200R010" [] a = "vendor" -> "VENDOR"
      [] a = "version" -> "VERSION" [] a = "vrp" -> "VRP" [] a = "ws" -> "WS"
      [] a = "yes" -> "YES" [] OTHER -> a]

Upper(a) == IF a \in KeyWords THEN UpperTab[a] ELSE a

\* k.upper()
UpperStr(k) == [i \in 1..Len(k) |-> Upper(k[i])]

\* the section properties that end the body of a document
SectPr == [kind |-> "sectPr", level |-> 0, runs |-> <<>>, rows |-> <<>>]

\* the elements doc.paragraphs lists
IsParagraph(e) == e.kind \in {"paragraph", "heading", "page_break"}

\* para.text: the texts of the runs, joined
RECURSIVE JoinRuns(_)
JoinRuns(runs) == IF runs = <<>> THEN <<>> ELSE Head(runs) \o JoinRuns(Tail(runs))

\* the position of the first "}" of text at or after i, or 0
RECURSIVE ClosingBrace(_, _)
ClosingBrace(text, i) ==
  IF i > Len(text) THEN 0
  ELSE IF text[i] = "}" THEN i ELSE ClosingBrace(text, i + 1)

\* text.replace("{PH}", val) for every (PH, val) of placeholder_map.  No value
\* of the model holds a brace, so the order of the replacements is immaterial
\* and one pass from the left gives the text they leave.
RECURSIVE ReplaceIn(_, _)
ReplaceIn(text, placeholder_map) ==
  IF text = <<>> THEN <<>>
  ELSE LET j == IF Head(text) = "{" THEN ClosingBrace(text, 2) ELSE 0
       IN  IF j > 0 /\ SubSeq(text, 2, j - 1) \in DOMAIN placeholder_map
           THEN placeholder_map[SubSeq(text, 2, j - 1)]
                  \o ReplaceIn(Drop(text, j), placeholder_map)
           ELSE <<Head(text)>> \o ReplaceIn(Tail(text), placeholder_map)

\* the replacement run by run (a paragraph) or cell by cell (a table, whose
\* cells hold one run each)
ReplaceInElement(e, placeholder_map) ==
  [e EXCEPT !.runs = [i \in 1..Len(e.runs) |-> ReplaceIn(e.runs[i], placeholder_map)],
            !.rows = [r \in 1..Len(e.rows) |->
                        [c \in 1..Len(e.rows[r]) |-> ReplaceIn(e.rows[r][c], placeholder_map)]]]

\* _replace_in_content_part(content_part, placeholder_map)
replace_in_content_part(part, placeholder_map) ==
  [i \in 1..Len(part) |-> ReplaceInElement(part[i], placeholder_map)]

\* {k.upper(): str(v if v is not None else "N/A") for k, v in data.items()
\*  if not k.startswith("_") and not isinstance(v, (list, dict))}, then
\* ["IP"] = str(data.get("_filename", "N/A"))
PlaceholderMap(d) ==
  LET ks == {k \in DOMAIN d : Head(k) # "_" /\ d[k].t # "list"}
      own == [K \in {UpperStr(k) : k \in ks} |->
                LET k == CHOOSE x \in ks : UpperStr(x) = K
                IN  IF d[k].t = "none" THEN NA.s ELSE PyStr(d[k])]
  IN  (<<"IP">> :> PyStr(GetOr(d, kFilename, NA))) @@ own

\* a new element put where python-docx adds paragraphs and tables to a body:
\* before the first sectPr, at the end when there is none
RECURSIVE InsertBeforeSectPr(_, _)
InsertBeforeSectPr(body, e) ==
  IF body = <<>> THEN <<e>>
  ELSE IF Head(body).kind = "sectPr" THEN <<e>> \o body
       ELSE <<Head(body)>> \o InsertBeforeSectPr(Tail(body), e)

\* add_page_break(doc)
add_page_break(body) == InsertBeforeSectPr(body, PageBreak)

MemberTablePlaceholder == <<"{", "MEMBER", "_", "TABLE", "}">>

\* sub in text
RECURSIVE Within(_, _)
Within(sub, text) ==
  /\ Len(text) >= Len(sub)
  /\ \/ SubSeq(text, 1, Len(sub)) = sub
     \/ Within(sub, Tail(text))

\* '{MEMBER_TABLE}' in para.text
HoldsMemberTable(e) == IsParagraph(e) /\ Within(MemberTablePlaceholder, JoinRuns(e.runs))

\* create_member_table_xml(doc, members_data): the table it builds; the
\* caller has checked that there are members
create_member_table_xml(members_data) == MemberTable(members_data)

\* p_element.addnext(new_table_xml): the table becomes the element after the
\* one at pos, wherever doc.add_table had put it
AddNext(body, pos, tbl) == SubSeq(body, 1, pos) \o <<tbl>> \o SubSeq(body, pos + 1, Len(body))

\* parent.remove(new_table_xml) for the element at pos
RemoveAt(body, pos) == SubSeq(body, 1, pos - 1) \o SubSeq(body, pos + 1, Len(body))

\* the body of the `if '{MEMBER_TABLE}' in para.text` for the paragraph at
\* pos: the text is emptied, the table is put after the paragraph, and the
\* parent of the table, which is the body, removes it again
MemberTableAt(body, pos, members) ==
  LET cleared == [body EXCEPT ![pos].runs = <<<<>>>>]
  IN  IF ~HasMembers(members) THEN cleared
      ELSE LET with_table == AddNext(cleared, pos, create_member_table_xml(members))
           IN  RemoveAt(with_table, pos + 1)

\* the second loop over the new paragraphs, those at pos and after
RECURSIVE MemberTableLoop(_, _, _)
MemberTableLoop(body, pos, members) ==
  IF pos > Len(body) THEN body
  ELSE MemberTableLoop(IF HoldsMemberTable(body[pos])
                       THEN MemberTableAt(body, pos, members) ELSE body,
                       pos + 1, members)

\* one turn of the loop of replace_template_multi, for the i-th record d
TemplateTurn(template_body_elements, body, i, d) ==
  LET before == IF i > 1 THEN add_page_break(body) ELSE body
      page == replace_in_content_part(template_body_elements, PlaceholderMap(d))
  IN  MemberTableLoop(before \o page, Len(before) + 1, GetOr(d, kMembers, List(<<>>)))

\* what makes the turn of the loop for record d raise AttributeError: a table
\* among the new elements (line 268 hands a Table, which has no paragraphs,
\* to _replace_in_content_part), or a str for members when a paragraph asks
\* for the member table
TemplateTurnRaises(template_body_elements, d) ==
  \/ \E i \in 1..Len(template_body_elements) : template_body_elements[i].kind = "table"
  \/ /\ MemberLoopRaises(GetOr(d, kMembers, List(<<>>)))
     /\ \E e \in {ReplaceInElement(template_body_elements[i], PlaceholderMap(d)) :
                    i \in 1..Len(template_body_elements)} : HoldsMemberTable(e)

\* the body after the turns of the loop for the records i..Len(switches)
RECURSIVE TemplatePages(_, _, _, _)
TemplatePages(template_body_elements, records, i, body) ==
  IF i > Len(records) THEN body
  ELSE TemplatePages(template_body_elements, records, i + 1,
                     TemplateTurn(template_body_elements, body, i, records[i]))

\* final_ph_map
FinalMap(records) ==
  (<<"REPORT", "_", "TIME">> :> report_time)
    @@ (IF records # <<>> THEN PlaceholderMap(records[Len(records)])
        ELSE [k \in {} |-> <<>>])

\* replace_template_multi(switches, tmpl_path, out_path) for the template tmpl
replace_template_multi(records, tmpl) ==
  IF \E i \in 1..Len(records) : TemplateTurnRaises(tmpl.body, records[i])
  THEN Unsaved
  ELSE LET final_ph_map == FinalMap(records)
       IN  Saved(replace_in_content_part(TemplatePages(tmpl.body, records, 1, <<>>),
                                          final_ph_map),
                 replace_in_content_part(tmpl.header, final_ph_map))

-----------------------------------------------------------------------------
(* The captures the model reads *)

Catalogue ==
  <<
    \* 1: `show version`: the IOS banner, the uptime, the device-wide serial and model number
    <<"Cisco", " ", "IOS", " ", "Software", ",", " ", "Version", " ", "15", ".", "2",
        ",", " ", "RELEASE", "\n">>
      \o <<"CoreSW1", " ", "uptime", " ", "is", " ", "5", " ", "days", "\n">>
      \o <<"System", " ", "Serial", " ", "Number", " ", ":", " ", "FOC1", "\n">>
      \o <<"Model", " ", "Number", " ", ":", " ", "WS", "-", "C3850", "\n">>,
    \* 2: a command echoed after the prompt CoreSW1#, and the clock
    <<"CoreSW1", "#", "show", " ", "clock", "\n">>
      \o <<"Clock", " ", "is", " ", "synchronized", "\n">>,
    \* 3: configuration lines naming the host
    <<"sysname", " ", "HW1", "\n">>
      \o <<"hostname", " ", "OldSW", "\n">>,
    \* 4: CPU and processor-pool figures
    <<"CPU", " ", "utilization", " ", "for", " ", "five", " ", "seconds", ":", " ",
        "7", "%", "/", "0", "%", "\n">>
      \o <<"Processor", " ", "Pool", " ", "Total", ":", " ", "1000000", " ", "Used", ":",
        " ", "250000", "\n">>,
    \* 5: `show switch` with two rows of the shape the row pattern reads
    <<"CoreSW1", "#", "show", " ", "switch", "\n">>
      \o <<"1", " ", "Master", " ", "WS", "-", "C3850", " ", "0011", ".", "2233", ".",
        "4455", " ", "Ready", "\n">>
      \o <<"2", " ", "Member", " ", "WS", "-", "C3850", " ", "0011", ".", "2233", ".",
        "4466", " ", "Ready", "\n">>,
    \* 6: `show switch` echoed after a prompt ending in a space, with a row as IOS prints it
    <<"Router", " ", "#", "show", " ", "switch", "\n">>
      \o <<"*", "1", " ", "Active", " ", "0011", ".", "2233", ".", "4455", " ", "15", " ",
        "Ready", "\n">>,
    \* 7: the per-switch serial numbers
    <<"Switch", " ", "1", " ", "SERIAL", " ", "NUMBER", " ", ":", " ", "FOC1", "\n">>
      \o <<"Switch", " ", "2", " ", "SERIAL", " ", "NUMBER", " ", ":", " ", "FOC2", "\n">>,
    \* 8: the VRP banner
    <<"VRP", " ", "(", "R", ")", " ", "software", ",", " ", "Version", " ", "5", ".",
        "170", " ", "(", "S5700", " ", "V200R010", ")", "\n">>,
    \* 9: a Huawei prompt carrying the host name, and the clock status
    <<"<", "Huawei", "-", "Core", ">", "display", " ", "clock", "\n">>
      \o <<"clock", " ", "status", " ", ":", " ", "synchronized", "\n">>,
    \* 10: `display device` after the <HUAWEI> prompt, standby then master
    <<"<", "HUAWEI", ">", "display", " ", "device", "\n">>
      \o <<"1", " ", "Standby", " ", "Normal", " ", "S5700", "-", "28C", " ", "SN1", "\n">>
      \o <<"2", " ", "Master", " ", "Normal", " ", "S5700", "-", "28C", " ", "SN2", "\n">>,
    \* 11: `display device` with slot 1 listed twice, both rows master
    <<"display", " ", "device", "\n">>
      \o <<"1", " ", "MASTER", " ", "Normal", " ", "S5700", "-", "28C", " ", "SN1", "\n">>
      \o <<"1", " ", "Master", " ", "Normal", " ", "S5700", "-", "28C", " ", "SN2", "\n">>,
    \* 12: per-slot CPU and memory of slot 2
    <<"CPU", " ", "Usage", " ", "for", " ", "Slot", " ", "2", " ", "is", " ", "12",
        "%", "\n">>
      \o <<"Memory", " ", "usage", " ", "of", " ", "slot", " ", "2", ":", " ", "40", "%",
        "\n">>,
    \* 13: `display device` in upper case with no rows, and the device-wide Huawei figures
    <<"DISPLAY", " ", "DEVICE", "\n">>
      \o <<"BARCODE", " ", ":", " ", "SN1", "\n">>
      \o <<"ITEM", " ", ":", " ", "S5700", "-", "28C", "\n">>
      \o <<"Control", " ", "Plane", " ", "CPU", " ", "Usage", " ", "is", " ", "12", "%",
        "\n">>
      \o <<"Memory", " ", "Using", " ", "Percentage", " ", "Is", " ", "40", "%", "\n">>,
    \* 14: the Comware banner and the device-wide H3C figures
    <<"H3C", " ", "Comware", " ", "Software", ",", " ", "Version", " ", "7", ".", "1",
        ".", "070", "\n">>
      \o <<"Device", " ", "serial", " ", "number", ":", " ", "SN1", "\n">>
      \o <<"Device", " ", "model", ":", " ", "S5130", "\n">>
      \o <<"CPU", " ", "average", " ", "usage", ":", " ", "5", "%", "\n">>
      \o <<"Memory", " ", "usage", ":", " ", "40", "%", "\n">>,
    \* 15: `display irf` after the <H3C> prompt, master then standby
    <<"<", "H3C", ">", "display", " ", "irf", "\n">>
      \o <<"1", " ", "Master", " ", "S5130", " ", "SN1", "\n">>
      \o <<"2", " ", "Standby", " ", "S5130", " ", "SN2", "\n">>,
    \* 16: per-slot figures of slot 1 and the clock status
    <<"Slot", " ", "1", " ", "CPU", " ", "usage", ":", " ", "5", "%", "\n">>
      \o <<"Slot", " ", "1", " ", "memory", " ", "usage", " ", "(", "Ratio", ")", ":", " ",
        "40", "%", "\n">>
      \o <<"Clock", " ", "status", ":", " ", "synchronized", "\n">>,
    \* 17: a label : value line of an unrecognised device
    <<"Uptime", " ", ":", " ", "5", " ", "days", "\n">>,
    \* 18: label : value lines whose labels are keys the code itself writes
    <<"Vendor", " ", ":", " ", "Juniper", "\n">>
      \o <<"Members", " ", ":", " ", "2", "\n">>
      \o <<"Is", " ", "Stack", " ", ":", " ", "yes", "\n">>
  >>

\* a capture holds at most MaxBlocks blocks of the catalogue
MaxBlocks == 3

\* the increasing sequences of at most n block numbers, all at least lo
RECURSIVE Selections(_, _)
Selections(lo, n) ==
  IF n = 0 THEN {<<>>}
  ELSE {<<>>} \cup UNION {{<<i>> \o r : r \in Selections(i + 1, n - 1)} :
                           i \in lo..Len(Catalogue)}

RECURSIVE Concat(_)
Concat(sel) == IF sel = <<>> THEN <<>> ELSE Catalogue[Head(sel)] \o Concat(Tail(sel))

Captures == {Concat(sel) : sel \in Selections(1, MaxBlocks)}

\* the addresses matched at the start of the file names
Addresses == {<<"10", ".", "0", ".", "0", ".", "1">>}

-----------------------------------------------------------------------------
(* The templates the model reads *)

\* "{K}"
Ph(K) == <<"{">> \o K \o <<"}">>

\* a template file: the elements of its body, the section properties last,
\* and the paragraphs of its page header
TemplateFiles ==
  \* a status page: two fields in two runs, the member table, two more fields
  ("status.docx" :>
     [body |-> <<Paragraph(<<<<"Host", " ">> \o Ph(<<"HOSTNAME">>),
                             <<" ", "at", " ">> \o Ph(<<"IP">>)>>),
                 Paragraph(<<MemberTablePlaceholder>>),
                 Paragraph(<<<<"CPU", " ">> \o Ph(<<"CPU", "_", "UTILIZATION">>)
                               \o <<" ", "SN", " ">> \o Ph(<<"SN">>)>>),
                 SectPr>>,
      header |-> <<Paragraph(<<Ph(<<"REPORT", "_", "TIME">>) \o <<" ">>
                                 \o Ph(<<"HOSTNAME">>)>>)>>])
  \* the fields in the cells of a table
  @@ ("fields.docx" :>
     [body |-> <<Table(<<<<Ph(<<"HOSTNAME">>), Ph(<<"VENDOR">>)>>>>), SectPr>>,
      header |-> <<>>])
  \* the member table placeholder typed in two runs, and one field
  @@ ("split.docx" :>
     [body |-> <<Paragraph(<<<<"{", "MEMBER">>, <<"_", "TABLE", "}">>>>),
                 Paragraph(<<<<"Up", " ">> \o Ph(<<"UPTIME">>)>>),
                 SectPr>>,
      header |-> <<>>])

\* args.template when the option is absent, and a path that names no file
NoTemplate == ""
MissingTemplate == "missing.docx"

-----------------------------------------------------------------------------
(* The state machine: one capture parsed, then reported *)

\* the command line of a run on a directory, with no template
NoArgs == [input_is_dir |-> TRUE, template |-> NoTemplate]

Init ==
  /\ content \in Captures
  /\ ip_address \in Addresses
  /\ data = EmptyDict
  /\ branch = "none"
  /\ pc = "start"
  /\ file_list = <<>>
  /\ txt_files = <<>>
  /\ tmpl_path = NoTemplate
  /\ doc = NoDocument
  /\ args = NoArgs
  /\ directory = <<>>
  /\ switches = <<>>
  /\ out = <<>>
  /\ raw_text = <<>>
  /\ commands = <<>>

\* the extractor named tag, run on the capture
Extract(tag, t) ==
  CASE tag = "Cisco" -> parse_cisco(t)
    [] tag = "Huawei" -> parse_huawei(t)
    [] tag = "H3C" -> parse_h3c(t)
    [] OTHER -> parse_unknown(t)

\* parse_device_info(txt_path, ip_address) on a file holding the text c
parse_device_info(c, ip) ==
  LET t == Txt(c) IN Returned(ip, Extract(Dispatch(t), t))

\* one call of parse_device_info; branch records the extractor it ran
ParseDeviceInfo ==
  /\ pc = "start"
  /\ data' = parse_device_info(content, ip_address)
  /\ branch' = Dispatch(Txt(content))
  /\ pc' = "done"
  /\ UNCHANGED <<content, ip_address, sortVars, reportVars, mainVars, splitVars>>

\* where a report generator leaves the run
AfterReport(d) == IF d.raised THEN "raised" ELSE "saved"

\* generate_multi_word([data], out_path)
GenerateMultiWord ==
  /\ pc = "done"
  /\ doc' = generate_multi_word(<<data>>)
  /\ pc' = AfterReport(generate_multi_word(<<data>>))
  /\ UNCHANGED <<parseVars, sortVars, tmpl_path, mainVars, splitVars>>

\* replace_template_multi([data], tmpl_path, out_path)
ReplaceTemplateMulti ==
  /\ pc = "done"
  /\ \E t \in DOMAIN TemplateFiles :
       /\ tmpl_path' = t
       /\ doc' = replace_template_multi(<<data>>, TemplateFiles[t])
       /\ pc' = AfterReport(replace_template_multi(<<data>>, TemplateFiles[t]))
  /\ UNCHANGED <<parseVars, sortVars, mainVars, splitVars>>

Next == ParseDeviceInfo \/ GenerateMultiWord \/ ReplaceTemplateMulti

Spec == Init /\ [][Next]_vars

-----------------------------------------------------------------------------
(* The state machine: the same run on captures of processor-pool figures *)

\* the totals and the used figures of the captures; "" for a figure the
\* capture does not report
PoolTotals == {"", "0", "7", "2233", "1000000"}
PoolUsed == {"", "0", "1", "2", "5", "7", "12", "15", "40", "2233", "4455", "250000"}

\* the IOS banner, then the line of `show memory` with the figures it reports
MemoryCapture(total, used) ==
  <<"Cisco", " ", "IOS", " ", "Software", "\n">>
    \o (IF total = "" THEN <<"Processor", " ", "Pool">>
        ELSE <<"Processor", " ", "Pool", " ", "Total", ":", " ", total>>)
    \o (IF used = "" THEN <<>> ELSE <<" ", "Used", ":", " ", used>>)
    \o <<"\n">>

InitMemory ==
  /\ content \in {MemoryCapture(t, u) : t \in PoolTotals, u \in PoolUsed}
  /\ ip_address \in Addresses
  /\ data = EmptyDict
  /\ branch = "none"
  /\ pc = "start"
  /\ file_list = <<>>
  /\ txt_files = <<>>
  /\ tmpl_path = NoTemplate
  /\ doc = NoDocument
  /\ args = NoArgs
  /\ directory = <<>>
  /\ switches = <<>>
  /\ out = <<>>
  /\ raw_text = <<>>
  /\ commands = <<>>

SpecMemory == InitMemory /\ [][Next]_vars

-----------------------------------------------------------------------------
(* The state machine: the same run on captures of unrecognised devices *)

\* lines of a capture that matches no vendor fingerprint
GenericLines ==
  <<
    <<"Uptime", " ", ":", " ", "5", " ", "days">>,
    <<"Uptime", " ", ":", " ", "7", " ", "days">>,
    <<"Model", " ", "Number", " ", ":", " ", "S5130">>,
    \* a label whose value is empty
    <<"Serial", " ", ":">>,
    \* no colon
    <<"Clock", " ", "is", " ", "synchronized">>,
    \* labels that normalize to keys the code itself writes
    <<"Vendor", " ", ":", " ", "Juniper">>,
    <<" ", "Members", ":", " ", " ", "2", " ">>,
    <<"Is", " ", "Stack", " ", ":", " ", "A">>,
    <<"_", "filename", " ", ":", " ", "2">>
  >>

\* a capture holds at most MaxLines of these lines
MaxLines == 3

RECURSIVE LineSelections(_)
LineSelections(n) ==
  IF n = 0 THEN {<<>>}
  ELSE LET shorter == LineSelections(n - 1)
       IN  shorter \cup {r \o <<i>> : r \in shorter, i \in 1..Len(GenericLines)}

RECURSIVE JoinLines(_)
JoinLines(sel) ==
  IF sel = <<>> THEN <<>> ELSE GenericLines[Head(sel)] \o <<NL>> \o JoinLines(Tail(sel))

GenericCaptures == {JoinLines(sel) : sel \in LineSelections(MaxLines)}

InitGeneric ==
  /\ content \in GenericCaptures
  /\ ip_address \in Addresses
  /\ data = EmptyDict
  /\ branch = "none"
  /\ pc = "start"
  /\ file_list = <<>>
  /\ txt_files = <<>>
  /\ tmpl_path = NoTemplate
  /\ doc = NoDocument
  /\ args = NoArgs
  /\ directory = <<>>
  /\ switches = <<>>
  /\ out = <<>>
  /\ raw_text = <<>>
  /\ commands = <<>>

SpecGeneric == InitGeneric /\ [][Next]_vars

-----------------------------------------------------------------------------
(* The state machine: one call of sort_by_ip on one file list *)

InitSort ==
  /\ file_list \in FileLists(MaxFiles)
  /\ txt_files = <<>>
  /\ pc = "unsorted"
  /\ content = <<>>
  /\ ip_address = <<>>
  /\ data = EmptyDict
  /\ branch = "none"
  /\ tmpl_path = NoTemplate
  /\ doc = NoDocument
  /\ args = NoArgs
  /\ directory = <<>>
  /\ switches = <<>>
  /\ out = <<>>
  /\ raw_text = <<>>
  /\ commands = <<>>

\* txt_files = sort_by_ip(txt_files, ip_pattern)
SortByIp ==
  /\ pc = "unsorted"
  /\ txt_files' = sort_by_ip(file_list)
  /\ pc' = "sorted"
  /\ UNCHANGED <<file_list, parseVars, reportVars, mainVars, splitVars>>

NextSort == SortByIp

SpecSort == InitSort /\ [][NextSort]_vars

-----------------------------------------------------------------------------
(* The state machine: one run of main *)

\* the texts of the files of the input directory
MainCaptures ==
  <<
    \* a Huawei cluster of two, the master second, with the figures of slot 2
    Concat(<<10, 12>>),
    \* an unrecognised device whose lines write the keys vendor, members and is_stack
    Concat(<<17, 18>>),
    \* an unrecognised device with a line labelled _filename and its uptime
    JoinLines(<<9, 1>>)
  >>

\* the names of the entries of the input directory
DirNames == <<FileNames[1], FileNames[2], FileNames[5], FileNames[6]>>

\* an entry of a directory: a file that can be read, with its text, a file
\* whose open() fails, or a subdirectory
DirEntries ==
  {[name |-> DirNames[i], is_file |-> TRUE, readable |-> TRUE, text |-> MainCaptures[k]] :
     i \in 1..Len(DirNames), k \in 1..Len(MainCaptures)}
  \cup {[name |-> DirNames[i], is_file |-> f, readable |-> FALSE, text |-> <<>>] :
          i \in 1..Len(DirNames), f \in BOOLEAN}

\* a directory holds at most MaxEntries entries
MaxEntries == 2

\* the listings, in the order iterdir() yields them, of the directories of
\* at most n entries with different names
RECURSIVE Listings(_)
Listings(n) ==
  IF n = 0 THEN {<<>>}
  ELSE LET shorter == Listings(n - 1)
           longest == {l \in shorter : Len(l) = n - 1}
       IN  shorter \cup
           {Append(x[1], x[2]) :
              x \in {y \in longest \X DirEntries :
                       \A i \in 1..Len(y[1]) : y[1][i].name # y[2].name}}

InitMain ==
  /\ args \in [input_is_dir : BOOLEAN,
               template : {NoTemplate, MissingTemplate} \cup DOMAIN TemplateFiles]
  /\ directory \in IF args.input_is_dir THEN Listings(MaxEntries) ELSE {<<>>}
  /\ pc = "main"
  /\ txt_files = <<>>
  /\ switches = <<>>
  /\ out = <<>>
  /\ tmpl_path = NoTemplate
  /\ doc = NoDocument
  /\ file_list = <<>>
  /\ content = <<>>
  /\ ip_address = <<>>
  /\ data = EmptyDict
  /\ branch = "none"
  /\ raw_text = <<>>
  /\ commands = <<>>

\* [p for p in txt_dir.iterdir() if p.is_file() and ip_pattern.match(p.name)]
RECURSIVE AcceptedFiles(_)
AcceptedFiles(listing) ==
  IF listing = <<>> THEN <<>>
  ELSE (IF Head(listing).is_file /\ ip_pattern_match(Head(listing).name).ok
        THEN <<Head(listing)>> ELSE <<>>) \o AcceptedFiles(Tail(listing))

\* lines 297-302: the input directory is checked and its files are listed
ListFiles ==
  /\ pc = "main"
  /\ IF ~args.input_is_dir
     THEN /\ out' = Append(out, "not a directory")
          /\ pc' = "returned"
          /\ UNCHANGED txt_files
     ELSE /\ txt_files' = AcceptedFiles(directory)
          /\ IF AcceptedFiles(directory) = <<>>
             THEN out' = Append(out, "no files found") /\ pc' = "returned"
             ELSE out' = out /\ pc' = "listed"
  /\ UNCHANGED <<parseVars, file_list, reportVars, args, directory, switches, splitVars>>

\* lines 304-306: the files are sorted and their names printed
SortFiles ==
  /\ pc = "listed"
  /\ txt_files' = sort_by_ip(txt_files)
  /\ out' = Append(out, "files found")
  /\ pc' = "parsing"
  /\ UNCHANGED <<parseVars, file_list, reportVars, args, directory, switches, splitVars>>

\* a text of characters as atoms: the runs of letters and digits joined
RECURSIVE Atoms(_, _)
Atoms(chars, cur) ==
  IF chars = <<>> THEN (IF cur = "" THEN <<>> ELSE <<cur>>)
  ELSE IF Head(chars) \in {".", "-"}
       THEN (IF cur = "" THEN <<>> ELSE <<cur>>) \o <<Head(chars)>> \o Atoms(Tail(chars), "")
       ELSE Atoms(Tail(chars), cur \o Head(chars))

\* line 308, one element of the list: parse_device_info on the next file,
\* whose open() raises when the file cannot be read
ParseFile ==
  /\ pc = "parsing"
  /\ Len(switches) < Len(txt_files)
  /\ LET p == txt_files[Len(switches) + 1]
     IN  IF p.readable
         THEN /\ switches' = Append(switches,
                   parse_device_info(p.text, Atoms(ip_pattern_match(p.name).g1, "")))
              /\ pc' = pc
         ELSE /\ pc' = "raised"
              /\ UNCHANGED switches
  /\ UNCHANGED <<parseVars, sortVars, reportVars, args, directory, out, splitVars>>

\* lines 310-315: the report is written, from the template when one is given
WriteReport ==
  /\ pc = "parsing"
  /\ Len(switches) = Len(txt_files)
  /\ IF args.template = NoTemplate
     THEN /\ doc' = generate_multi_word(switches)
          /\ pc' = AfterReport(generate_multi_word(switches))
          /\ UNCHANGED <<tmpl_path, out>>
     ELSE IF args.template \notin DOMAIN TemplateFiles
          THEN /\ out' = Append(out, "template not found")
               /\ pc' = "returned"
               /\ UNCHANGED <<tmpl_path, doc>>
          ELSE /\ tmpl_path' = args.template
               /\ doc' = replace_template_multi(switches, TemplateFiles[args.template])
               /\ pc' = AfterReport(replace_template_multi(switches,
                                                          TemplateFiles[args.template]))
               /\ UNCHANGED out
  /\ UNCHANGED <<parseVars, sortVars, args, directory, switches, splitVars>>

NextMain == ListFiles \/ SortFiles \/ ParseFile \/ WriteReport

SpecMain == InitMain /\ [][NextMain]_vars

-----------------------------------------------------------------------------
(* The state machine: one capture made of command sections in any order *)

\* the sections of a capture: a banner or a notice line, or a command echoed
\* after the prompt with the lines of its output
SectionTexts ==
  <<
    \* 1: the IOS banner
    <<"Cisco", " ", "IOS", " ", "Software", ",", " ", "Version", " ", "15", ".", "2",
        ",", " ", "RELEASE", "\n">>,
    \* 2: a notice line with a `#` that ends no prompt
    <<"Switch", "#", "2", " ", "of", " ", "Core", "\n">>,
    \* 3: `show clock` echoed after the prompt CoreSW1#
    <<"CoreSW1", "#", "show", " ", "clock", "\n">>
      \o <<"Clock", " ", "is", " ", "synchronized", "\n">>,
    \* 4: `show switch` with no row
    <<"CoreSW1", "#", "show", " ", "switch", "\n">>,
    \* 5: `show switch` with one row
    <<"CoreSW1", "#", "show", " ", "switch", "\n">>
      \o <<"1", " ", "Master", " ", "WS", "-", "C3850", " ", "0011", ".", "2233", ".",
        "4455", " ", "Ready", "\n">>,
    \* 6: `show switch` with the row of the active member, marked `*`
    <<"CoreSW1", "#", "show", " ", "switch", "\n">>
      \o <<"*", "1", " ", "Master", " ", "WS", "-", "C3850", " ", "0011", ".", "2233", ".",
        "4455", " ", "Ready", "\n">>,
    \* 7: `show version` with the serial number of switch 1
    <<"CoreSW1", "#", "show", " ", "version", "\n">>
      \o <<"Switch", " ", "1", " ", "SERIAL", " ", "NUMBER", " ", ":", " ", "FOC1", "\n">>,
    \* 8: another command whose output holds a line of the shape of a row
    <<"CoreSW1", "#", "show", " ", "inventory", "\n">>
      \o <<"2", " ", "Member", " ", "WS", "-", "C3850", " ", "0011", ".", "2233", ".",
        "4466", " ", "Ready", "\n">>,
    \* 9: a notice line with angle brackets that are no prompt
    <<"Slot", " ", "<", "1", ">", " ", "Normal", "\n">>,
    \* 10: `display device` after the prompt <HUAWEI>, with no row
    <<"<", "HUAWEI", ">", "display", " ", "device", "\n">>,
    \* 11: `display device` with one row
    <<"<", "HUAWEI", ">", "display", " ", "device", "\n">>
      \o <<"1", " ", "Master", " ", "Normal", " ", "S5700", "-", "28C", " ", "SN1", "\n">>,
    \* 12: another command whose output holds a line of the shape of a row
    <<"<", "HUAWEI", ">", "display", " ", "slot", "\n">>
      \o <<"2", " ", "Standby", " ", "Normal", " ", "S5700", "-", "28C", " ", "SN2", "\n">>
  >>

\* a capture holds at most MaxSections sections
MaxSections == 3

\* the sequences of at most n different section numbers, in any order
RECURSIVE SectionOrders(_)
SectionOrders(n) ==
  IF n = 0 THEN {<<>>}
  ELSE LET shorter == SectionOrders(n - 1)
           longest == {l \in shorter : Len(l) = n - 1}
       IN  shorter \cup
           {Append(x[1], x[2]) :
              x \in {y \in longest \X (1..Len(SectionTexts)) :
                       \A i \in 1..Len(y[1]) : y[1][i] # y[2]}}

RECURSIVE JoinSections(_)
JoinSections(sel) ==
  IF sel = <<>> THEN <<>> ELSE SectionTexts[Head(sel)] \o JoinSections(Tail(sel))

SectionCaptures == {JoinSections(sel) : sel \in SectionOrders(MaxSections)}

InitSections ==
  /\ content \in SectionCaptures
  /\ ip_address \in Addresses
  /\ data = EmptyDict
  /\ branch = "none"
  /\ pc = "start"
  /\ file_list = <<>>
  /\ txt_files = <<>>
  /\ tmpl_path = NoTemplate
  /\ doc = NoDocument
  /\ args = NoArgs
  /\ directory = <<>>
  /\ switches = <<>>
  /\ out = <<>>
  /\ raw_text = <<>>
  /\ commands = <<>>

NextSections == ParseDeviceInfo

SpecSections == InitSections /\ [][NextSections]_vars

-----------------------------------------------------------------------------
(* v0.0.5: the capture is split into commands at the prompt lines *)

\* [\w\d\.\-]
HostCh == WordCh \cup {".", "-"}

\* r'(?m)^([\w\d\.\-]+[#>] ?.*)': the group is the whole match
PROMPT_REGEX == <<Bol, Plus(HostCh), One({"#", ">"}), Opt({SP}), Star(AnyCh)>>

\* r'^[\w\d\.\-]+[#>] ?'
COMMAND_LINE_REGEX == <<Plus(HostCh), One({"#", ">"}), Opt({SP})>>

\* PROMPT_REGEX.split(raw_text): the text before the first match, then for
\* each match its group and the text up to the next match
RECURSIVE SplitFrom(_, _, _, _)
SplitFrom(t, ms, j, from) ==
  IF j > Len(ms) THEN <<SubSeq(t.o, from, Len(t.o))>>
  ELSE <<SubSeq(t.o, from, ms[j].start - 1), SubSeq(t.o, ms[j].start, ms[j].end - 1)>>
         \o SplitFrom(t, ms, j + 1, ms[j].end)

PromptSplit(text) == SplitFrom(Txt(text), FindIter(Txt(text), PROMPT_REGEX), 1, 1)

\* COMMAND_LINE_REGEX.sub('', cmd_line): the pattern is anchored at the start
\* of the string, so at most one match is removed
RemovePrompt(cmd_line) ==
  LET m == MatchFrom(Txt(cmd_line), COMMAND_LINE_REGEX, 1, 1, NoCaps)
  IN  IF m.ok THEN SubSeq(cmd_line, m.end, Len(cmd_line)) ELSE cmd_line

\* the loop of split_commands over sections[i], sections[i + 1], where i
\* counts from 1 as the sequences of the model do (the code starts at 1,
\* counting from 0)
RECURSIVE CommandLoop(_, _)
CommandLoop(sections, i) ==
  IF i > Len(sections) THEN <<>>
  ELSE LET cmd_line == Strip(sections[i])
           cmd      == Strip(RemovePrompt(cmd_line))
           output   == Strip(sections[i + 1])
       IN  (IF cmd = <<>> THEN <<>> ELSE << <<cmd, output>> >>)
             \o CommandLoop(sections, i + 2)

\* split_commands(raw_text)
split_commands(text) ==
  LET sections == PromptSplit(text)
  IN  IF Len(sections) < 3 THEN <<>> ELSE CommandLoop(sections, 2)

\* the lines a text is made of
TextLines ==
  <<
    \* 1: a banner
    <<"Cisco", " ", "IOS", " ", "Software">>,
    \* 2: a command after the prompt CoreSW1#
    <<"CoreSW1", "#", "show", " ", "version">>,
    \* 3: a command after the prompt and a space
    <<"CoreSW1", "#", " ", "show", " ", "clock">>,
    \* 4: the prompt alone
    <<"CoreSW1", "#">>,
    \* 5: a command after the prompt H3C-Core>
    <<"H3C", "-", "Core", ">", "display", " ", "device">>,
    \* 6: a line of output
    <<"Uptime", " ", "is", " ", "5", " ", "days">>,
    \* 7: an indented line of output
    <<" ", " ", "Clock", " ", "is", " ", "synchronized">>,
    \* 8: an empty line
    <<>>,
    \* 9: a command after the user-view prompt <H3C>
    <<"<", "H3C", ">", "display", " ", "irf">>
  >>

\* a text holds at most MaxTextLines lines
MaxTextLines == 3

\* the sequences of at most n line numbers
RECURSIVE LineChoices(_)
LineChoices(n) ==
  IF n = 0 THEN {<<>>}
  ELSE LET shorter == LineChoices(n - 1)
       IN  shorter \cup {Append(x[1], x[2]) :
                           x \in {l \in shorter : Len(l) = n - 1} \X (1..Len(TextLines))}

\* the text of the lines sel, each ended by a newline
RECURSIVE TextOf(_)
TextOf(sel) ==
  IF sel = <<>> THEN <<>> ELSE TextLines[Head(sel)] \o <<NL>> \o TextOf(Tail(sel))

RawTexts == {TextOf(sel) : sel \in LineChoices(MaxTextLines)}

InitSplit ==
  /\ raw_text \in RawTexts
  /\ commands = <<>>
  /\ pc = "start"
  /\ content = <<>>
  /\ ip_address = <<>>
  /\ data = EmptyDict
  /\ branch = "none"
  /\ file_list = <<>>
  /\ txt_files = <<>>
  /\ tmpl_path = NoTemplate
  /\ doc = NoDocument
  /\ args = NoArgs
  /\ directory = <<>>
  /\ switches = <<>>
  /\ out = <<>>

\* commands = split_commands(raw_text)
SplitCommands ==
  /\ pc = "start"
  /\ commands' = split_commands(raw_text)
  /\ pc' = "done"
  /\ UNCHANGED <<parseVars, sortVars, reportVars, mainVars, raw_text>>

NextSplit == SplitCommands

SpecSplit == InitSplit /\ [][NextSplit]_vars

-----------------------------------------------------------------------------
(* v0.0.5: the report of the commands of every capture of a directory *)

NoPlatform == "None"

\* the number of positions of the lowered text at which the atoms ws follow
\* one another: text_lower.count(s) for the words the captures are made of
CountIn(t, ws) ==
  Cardinality({i \in 1..Len(t.l) :
                 /\ i + Len(ws) - 1 <= Len(t.l)
                 /\ SubSeq(t.l, i, i + Len(ws) - 1) = ws})

\* detect_platform(raw_text)
detect_platform(text) ==
  LET text_lower == Txt(text)
  IN  IF CountIn(text_lower, <<"cisco">>) > 0 THEN "cisco_ios"
      ELSE IF CountIn(text_lower, <<"h3c">>) > 0 \/ CountIn(text_lower, <<"display">>) > 0
           THEN "hp_comware"
      ELSE IF CountIn(text_lower, <<"show", SP>>) > CountIn(text_lower, <<"display", SP>>)
           THEN "cisco_ios"
      ELSE NoPlatform

\* s.replace('.txt', ''), s a sequence of characters
RECURSIVE RemoveTxt(_)
RemoveTxt(s) ==
  IF s = <<>> THEN <<>>
  ELSE IF Len(s) >= 4 /\ SubSeq(s, 1, 4) = <<".", "t", "x", "t">>
       THEN RemoveTxt(SubSeq(s, 5, Len(s)))
       ELSE <<Head(s)>> \o RemoveTxt(Tail(s))

\* what parse_output of ntc_templates does with one command is not in this
\* repository: it raises, or returns a list of rows, each a dict given here
\* as the sequence of its (key, value) pairs
ParseOutcomes ==
  {[raises |-> TRUE, rows |-> <<>>],
   [raises |-> FALSE, rows |-> <<>>],
   [raises |-> FALSE, rows |-> << << <<<<"uptime">>, <<"5", " ", "days">>>> >> >>]}

\* row_data.get(key, '')
RECURSIVE RowGet(_, _)
RowGet(row_data, key) ==
  IF row_data = <<>> THEN <<>>
  ELSE IF Head(row_data)[1] = key THEN Head(row_data)[2] ELSE RowGet(Tail(row_data), key)

\* lines 136-155: the table of the rows, its header in upper case, and the
\* empty paragraph after it
ParsedTable(parsed_data) ==
  LET headers == [i \in 1..Len(parsed_data[1]) |-> parsed_data[1][i][1]]
  IN  <<Table(<<[i \in 1..Len(headers) |-> UpperStr(headers[i])]>>
                \o [r \in 1..Len(parsed_data) |->
                      [i \in 1..Len(headers) |-> RowGet(parsed_data[r], headers[i])]]),
        Paragraph(<<>>)>>

\* lines 121-159, for the commands j.. of the device: the heading of the
\* command, then the table, or the paragraph that says why there is none
RECURSIVE CommandParts(_, _, _)
CommandParts(cmds, j, outcome) ==
  IF j > Len(cmds) THEN <<>>
  ELSE <<Heading(<<"Command", ":", " ">> \o cmds[j][1], 3)>>
         \o (IF outcome[j].raises THEN <<Paragraph(<<<<"ParseError">>>>)>>
             ELSE IF outcome[j].rows = <<>> THEN <<Paragraph(<<<<"NoParsedData">>>>)>>
             ELSE ParsedTable(outcome[j].rows))
         \o CommandParts(cmds, j + 1, outcome)

\* lines 97-161, one turn of the loop over the files: what is added to the
\* document for the file txt_file, outcome[j] being what parse_output does
\* with its j-th command
DeviceParts(txt_file, outcome) ==
  LET device_name == RemoveTxt(txt_file.name)
      platform    == detect_platform(txt_file.text)
      cmds        == split_commands(txt_file.text)
  IN  IF ~txt_file.readable
      THEN <<Paragraph(<<<<"Device", " ">> \o device_name \o <<":", "ReadFailed">>>>)>>
      ELSE IF platform = NoPlatform
      THEN <<Paragraph(<<<<"Device", " ">> \o device_name \o <<":", "NoPlatform">>>>)>>
      ELSE <<Heading(<<"Device", ":">> \o device_name \o <<" ", "(", platform, ")">>, 2)>>
             \o (IF cmds = <<>> THEN <<Paragraph(<<<<"NoCommandOutput">>>>)>>
                 ELSE CommandParts(cmds, 1, outcome) \o <<PageBreak>>)

\* the loop over txt_files, from the i-th file on
RECURSIVE ReportParts(_, _, _)
ReportParts(files, i, outcomes) ==
  IF i > Len(files) THEN <<>>
  ELSE DeviceParts(files[i], outcomes[i]) \o ReportParts(files, i + 1, outcomes)

\* glob.glob(os.path.join(txt_dir, '*.txt')): the entries whose name ends in
\* .txt, in the order of the listing
GlobTxt(listing) == SelectSeq(listing, LAMBDA e : EndsWithTxt(e.name))

\* the names of the entries of the directory of v0.0.5
ReportNames ==
  <<
    <<"s", "w", "1", ".", "t", "x", "t">>,
    <<"s", "w", "2", ".", "t", "x", "t">>,
    <<"s", "w", "3", ".", "l", "o", "g">>
  >>

\* the texts of the files of that directory
ReportTexts ==
  {
    \* the banner and one command
    TextOf(<<1, 2, 6>>),
    \* two commands, with no banner
    TextOf(<<2, 6, 3, 7>>),
    \* a text that names no platform
    TextOf(<<6>>),
    \* a command after the user-view prompt of an H3C device
    TextOf(<<9, 6>>)
  }

\* an entry: a file with its text, or one whose open() fails
ReportEntries ==
  {[name |-> ReportNames[i], readable |-> TRUE, text |-> x] :
     i \in 1..Len(ReportNames), x \in ReportTexts}
  \cup {[name |-> ReportNames[i], readable |-> FALSE, text |-> <<>>] :
          i \in 1..Len(ReportNames)}

\* a directory holds at most MaxDevices entries
MaxDevices == 2

\* a capture holds at most MaxCommands commands
MaxCommands == 2

\* the listings of the directories of at most n entries with different names
RECURSIVE ReportListings(_)
ReportListings(n) ==
  IF n = 0 THEN {<<>>}
  ELSE LET shorter == ReportListings(n - 1)
           longest == {l \in shorter : Len(l) = n - 1}
       IN  shorter \cup
           {Append(x[1], x[2]) :
              x \in {y \in longest \X ReportEntries :
                       \A i \in 1..Len(y[1]) : y[1][i].name # y[2].name}}

InitReport ==
  /\ directory \in ReportListings(MaxDevices)
  /\ doc = NoDocument
  /\ out = <<>>
  /\ pc = "main"
  /\ args = NoArgs
  /\ switches = <<>>
  /\ txt_files = <<>>
  /\ file_list = <<>>
  /\ tmpl_path = NoTemplate
  /\ content = <<>>
  /\ ip_address = <<>>
  /\ data = EmptyDict
  /\ branch = "none"
  /\ raw_text = <<>>
  /\ commands = <<>>

\* generate_report(txt_dir, output_docx): the title, the parts of every
\* device, and the save, which may fail and is then reported
GenerateReport ==
  /\ pc = "main"
  /\ txt_files' = GlobTxt(directory)
  /\ IF GlobTxt(directory) = <<>>
     THEN /\ out' = Append(out, "no files found")
          /\ pc' = "returned"
          /\ UNCHANGED doc
     ELSE \E outcomes \in [1..MaxDevices -> [1..MaxCommands -> ParseOutcomes]],
             save_ok \in BOOLEAN :
            LET body == <<Heading(<<"NetworkDeviceReport">>, 1)>>
                          \o ReportParts(GlobTxt(directory), 1, outcomes)
            IN  /\ doc' = [saved |-> save_ok, raised |-> FALSE, body |-> body,
                           header |-> <<>>]
                /\ out' = Append(out, IF save_ok THEN "report written" ELSE "save failed")
                /\ pc' = IF save_ok THEN "saved" ELSE "returned"
  /\ UNCHANGED <<parseVars, file_list, tmpl_path, args, directory, switches, splitVars>>

NextReport == GenerateReport

SpecReport == InitReport /\ [][NextReport]_vars

-----------------------------------------------------------------------------
(* The claims *)

Done == pc = "done"

\* the capture as the matcher reads it
T == Txt(content)

Vendors == {"Cisco", "Huawei", "H3C"}

\* the members of the returned record, when it holds a list of them
MemberList == IF kMembers \in DOMAIN data /\ data[kMembers].t = "list"
              THEN data[kMembers].l ELSE <<>>

\* C1: the record returned by any extractor, the generic branch included, has
\* a members list of length at least 1.
C1_MembersListNonEmpty ==
  Done => /\ kMembers \in DOMAIN data
          /\ data[kMembers].t = "list"
          /\ Len(data[kMembers].l) >= 1

\* C2: the capture is tested against the Cisco, then the Huawei, then the H3C
\* fingerprint, the first that matches names the extractor, none gives
\* Unknown, and the vendor field of the returned record equals the tag chosen.
C2_VendorIsFirstFingerprint ==
  Done => LET tag == IF FingerprintCisco(T) THEN "Cisco"
                     ELSE IF FingerprintHuawei(T) THEN "Huawei"
                     ELSE IF FingerprintH3c(T) THEN "H3C" ELSE "Unknown"
          IN  /\ branch = tag
              /\ kVendor \in DOMAIN data
              /\ data[kVendor] = Str(<<tag>>)

\* the tests as the specification lists them: a command echoed after a `#`
\* prompt is a `#` directly followed by a command word
ListedCisco(t) ==
  \/ Contains(t, <<"cisco", "ios", "software">>)
  \/ Search(t, <<LitCS("#"), One(Alnum)>>).ok

ListedHuawei(t) ==
  \/ Search(t, <<Lit("vrp"), One({SP}), LitCS("("), Lit("r"), LitCS(")"), One({SP}),
                 Lit("software")>>).ok
  \/ Search(t, <<LitCS("<"), Lit("huawei"), LitCS(">")>>).ok
  \/ Contains(t, <<"display", "device">>)

ListedH3c(t) ==
  \/ Contains(t, <<"comware", "software">>)
  \/ Search(t, <<LitCS("<"), Lit("h3c"), LitCS(">")>>).ok
  \/ Contains(t, <<"display", "irf">>)

\* C3: a capture passes the Cisco, Huawei or H3C fingerprint test exactly when
\* it contains one of the tokens listed for that vendor.
C3_FingerprintsAsListed ==
  Done => /\ FingerprintCisco(T) <=> ListedCisco(T)
          /\ FingerprintHuawei(T) <=> ListedHuawei(T)
          /\ FingerprintH3c(T) <=> ListedH3c(T)

\* the two strategies of a vendor extractor, run on the capture
PromptMatch == Search(T, IF branch = "Cisco" THEN re_prompt_cisco ELSE re_prompt_angle)
ConfigMatch == Search(T, IF branch = "Cisco" THEN re_hostname_config ELSE re_sysname_config)

\* C4: in each vendor extractor the token the prompt strategy yields is the
\* hostname whatever configuration lines there are; the declared name is used
\* only when the prompt yields nothing; when both fail the hostname is "N/A";
\* it is never empty or absent.
C4_HostnamePriority ==
  (Done /\ branch \in Vendors) =>
    /\ kHostname \in DOMAIN data
    /\ data[kHostname].t = "str"
    /\ data[kHostname].s # <<>>
    /\ PromptMatch.ok => data[kHostname].s = Group(T, PromptMatch, 1)
    /\ (~PromptMatch.ok /\ ConfigMatch.ok /\ Strip(Group(T, ConfigMatch, 1)) # <<>>)
         => data[kHostname].s = Strip(Group(T, ConfigMatch, 1))
    /\ (~PromptMatch.ok /\ (ConfigMatch.ok => Strip(Group(T, ConfigMatch, 1)) = <<>>))
         => data[kHostname] = NA

\* C4's case: a capture with a prompt token and a declared name that differ
C4_Witness ==
  /\ Done /\ branch \in Vendors
  /\ PromptMatch.ok /\ ConfigMatch.ok
  /\ Group(T, PromptMatch, 1) # Strip(Group(T, ConfigMatch, 1))
  /\ data[kHostname].s = Group(T, PromptMatch, 1)

\* the `show switch` rows and the per-switch serial lines of the capture
SwitchRows == FindIter(T, re_cisco_member)
SerialLines == FindIter(T, re_cisco_sn)
SerialsOf(id) == {Group(T, SerialLines[j], 2) :
                    j \in {k \in 1..Len(SerialLines) : Group(T, SerialLines[k], 1) = id}}

\* C5: a Cisco capture containing `show switch` with two member rows and a
\* per-switch serial number for each of the two indices gives is_stack = true
\* and exactly two members, each with the serial number reported for its own
\* index; with `show switch` present and no matching row it gives the
\* standalone result, a single member and is_stack = false.
C5_CiscoStackDetection ==
  (Done /\ branch = "Cisco" /\ Contains(T, <<"show", "switch">>)) =>
    /\ (/\ Len(SwitchRows) = 2
        /\ \A i \in 1..2 : SerialsOf(Group(T, SwitchRows[i], 1)) # {})
         => /\ data[kIsStack] = Bool(TRUE)
            /\ Len(MemberList) = 2
            /\ \A i \in 1..2 :
                 /\ MemberList[i][kId].s = Group(T, SwitchRows[i], 1)
                 /\ MemberList[i][kSn].s \in SerialsOf(Group(T, SwitchRows[i], 1))
    /\ Len(SwitchRows) = 0
         => /\ data[kIsStack] = Bool(FALSE)
            /\ Len(MemberList) = 1
            /\ MemberList[1][kId] = Str(<<"1">>)

\* C5's case: two rows with different indices, each with its own serial number
C5_Witness ==
  /\ Done /\ branch = "Cisco" /\ Contains(T, <<"show", "switch">>)
  /\ Len(SwitchRows) = 2
  /\ Group(T, SwitchRows[1], 1) # Group(T, SwitchRows[2], 1)
  /\ \A i \in 1..2 : SerialsOf(Group(T, SwitchRows[i], 1)) # {}
  /\ data[kIsStack] = Bool(TRUE)
  /\ MemberList[1][kSn] # MemberList[2][kSn]

\* C6: in every record returned by any extractor is_stack is present and is
\* true exactly when the members list holds more than one member.
C6_IsStackIffSeveralMembers ==
  Done => /\ kIsStack \in DOMAIN data
          /\ data[kIsStack] = Bool(Len(MemberList) > 1)

\* C7: when a Huawei or H3C cluster extraction yields members of which one has
\* the role master, the top-level serial number, model, CPU and memory equal
\* those of the first such member.
C7_MasterPromoted ==
  (Done /\ branch \in {"Huawei", "H3C"} /\ FirstMaster(MemberList, 1) > 0) =>
    LET m == MemberList[FirstMaster(MemberList, 1)]
    IN  /\ Get(data, kSn) = m[kSn]
        /\ Get(data, kModel) = m[kModel]
        /\ Get(data, kCpuUtil) = m[kCpu]
        /\ Get(data, kMemUtil) = m[kMemory]

\* the values a promoted field k may take from the members
MemberValues(k) ==
  LET mk == CASE k = kCpuUtil -> kCpu [] k = kMemUtil -> kMemory [] OTHER -> k
  IN  {MemberList[i][mk] : i \in {j \in 1..Len(MemberList) : mk \in DOMAIN MemberList[j]}}

\* C8: in every record returned by a vendor extractor the top-level serial
\* number, model, CPU and memory are all present, each some member's value or
\* "N/A", none None.
C8_PromotedFieldsPresent ==
  (Done /\ branch \in Vendors) =>
    \A k \in {kSn, kModel, kCpuUtil, kMemUtil} :
      /\ k \in DOMAIN data
      /\ data[k].t = "str"
      /\ data[k] \in MemberValues(k) \cup {NA}

MemberFields == {kId, kRole, kModel, kSn, kCpu, kMemory, kMac, kStatus}

\* C9: every member of every returned record holds every declared member
\* field, each a real value or "N/A", none missing, none None.
C9_MemberFieldsComplete ==
  Done => \A i \in 1..Len(MemberList) :
            \A k \in MemberFields :
              /\ k \in DOMAIN MemberList[i]
              /\ MemberList[i][k].t = "str"

\* C10: no two members of a returned record have the same id.
C10_MemberIdsUnique ==
  Done => \A i, j \in 1..Len(MemberList) :
            (i # j /\ kId \in DOMAIN MemberList[i] /\ kId \in DOMAIN MemberList[j])
              => MemberList[i][kId] # MemberList[j][kId]

Sorted == pc = "sorted"

\* the name of p starts with an address that ip_address accepts
ValidAddress(p) ==
  LET match == ip_pattern_match(p.name)
  IN  match.ok /\ ip_address_of(match.g1).ok

\* the positions of l, as a sequence, that hold x
Occurrences(l, x) == Cardinality({i \in 1..Len(l) : l[i] = x})

\* C11: sort_by_ip orders the files by the numeric value of the address
\* leading their name, every file whose name parses to a valid address comes
\* before every file whose name does not, and the result is a permutation of
\* the input list.
C11_SortedNumericallyInvalidLast ==
  Sorted =>
    /\ Len(txt_files) = Len(file_list)
    /\ \A f \in Files : Occurrences(txt_files, f) = Occurrences(file_list, f)
    /\ \A i, j \in 1..Len(txt_files) :
         /\ (i < j /\ ValidAddress(txt_files[i]) /\ ValidAddress(txt_files[j]))
              => ~AddressLess(ip_key(txt_files[j]), ip_key(txt_files[i]))
         /\ (ValidAddress(txt_files[i]) /\ ~ValidAddress(txt_files[j])) => i < j

\* the name of p starts with four groups of digits that are no address
OutOfRange(p) ==
  LET match == ip_pattern_match(p.name)
  IN  match.ok /\ ~ip_address_of(match.g1).ok

\* a file named notes.txt in the place of every file of l with an
\* out-of-range octet
AsNoAddress(l) ==
  [i \in 1..Len(l) |-> IF OutOfRange(l[i]) THEN [l[i] EXCEPT !.name = FileNames[5]]
                       ELSE l[i]]

\* C12: a file name whose leading dotted quad has an out-of-range octet is
\* ordered exactly as a name with no leading address is (same key, same
\* place in the sorted list, after every lower address), and neither the
\* ordering nor the rest of the run raises because of it.
C12_OutOfRangeSortsAsNoAddress ==
  /\ \A i \in 1..Len(directory) :
       OutOfRange(directory[i]) => ip_key(directory[i]) = ip_key([name |-> FileNames[5]])
  /\ pc \in {"parsing", "saved", "raised", "returned"} /\ txt_files # <<>>
       => /\ sort_by_ip(AsNoAddress(AcceptedFiles(directory))) = AsNoAddress(txt_files)
          /\ \A i, j \in 1..Len(txt_files) :
               (i < j /\ OutOfRange(txt_files[i]))
                 => ~AddressLess(ip_key(txt_files[j]), ip_key(txt_files[i]))
  /\ pc = "raised"
       => \/ doc.raised
          \/ /\ Len(switches) < Len(txt_files)
             /\ ~txt_files[Len(switches) + 1].readable

\* C12's case: a run on a directory that lists 999.1.1.1.txt before a file
\* with a valid address, which sorts it last, parses it and saves the report
C12_Witness ==
  /\ pc = "saved"
  /\ Len(directory) = 2 /\ Len(txt_files) = 2
  /\ OutOfRange(directory[1]) /\ ValidAddress(directory[2])
  /\ txt_files = <<directory[2], directory[1]>>
  /\ Len(switches) = 2
  /\ switches[2][kFilename] = Str(<<"999", ".", "1", ".", "1", ".", "1">>)

\* the extractor has returned
Parsed == pc \in {"done", "saved", "raised"}

\* the two figures as parse_cisco matches them
TotalMatch == Search(T, re_cisco_total)
UsedMatch == Search(T, re_cisco_used)
TotalFigure == IntOf(Group(T, TotalMatch, 1)[1])
UsedFigure == IntOf(Group(T, UsedMatch, 1)[1])

\* a number of hundredths written with two decimals and a percent sign
TwoDecimals(h) ==
  <<ToString(h \div 100), ".",
    IF h % 100 < 10 THEN "0" \o ToString(h % 100) ELSE ToString(h % 100), "%">>

\* C13: parse_cisco gives as memory utilization used/total*100 with two
\* decimals and a percent sign, from the matched total and used figures of the
\* processor pool (1000000 and 250000 give "25.00%"); "0%" when the matched
\* total is 0; "N/A" when either figure is not matched.  The rounding is
\* compared for used figures below 10000, whose products stay within 32 bits.
C13_CiscoMemoryDerived ==
  (Parsed /\ branch = "Cisco") =>
    /\ kMemUtil \in DOMAIN data
    /\ (~TotalMatch.ok \/ ~UsedMatch.ok) => data[kMemUtil] = NA
    /\ (TotalMatch.ok /\ UsedMatch.ok) =>
         /\ TotalFigure = 0 => data[kMemUtil] = Str(<<"0", "%">>)
         /\ (TotalFigure > 0 /\ UsedFigure < 10000) =>
              data[kMemUtil] =
                Str(TwoDecimals((2 * UsedFigure * 10000 + TotalFigure) \div (2 * TotalFigure)))
         /\ (TotalFigure = 1000000 /\ UsedFigure = 250000) =>
              data[kMemUtil] = Str(<<"25", ".", "00", "%">>)

\* C13's case: 5 used of 7, which is 71.428...%, rounded to 71.43%
C13_Witness ==
  /\ pc = "done" /\ branch = "Cisco"
  /\ TotalMatch.ok /\ UsedMatch.ok
  /\ TotalFigure = 7 /\ UsedFigure = 5
  /\ data[kMemUtil] = Str(<<"71", ".", "43", "%">>)

\* the lines of a text
RECURSIVE Lines(_, _)
Lines(t, cur) ==
  IF t = <<>> THEN (IF cur = <<>> THEN <<>> ELSE <<cur>>)
  ELSE IF Head(t) = NL THEN <<cur>> \o Lines(Tail(t), <<>>)
       ELSE Lines(Tail(t), Append(cur, Head(t)))

\* the first colon of a line, 0 when it has none
FirstColon(line) ==
  IF \E i \in 1..Len(line) : line[i] = ":"
  THEN CHOOSE i \in 1..Len(line) : line[i] = ":" /\ \A j \in 1..(i - 1) : line[j] # ":"
  ELSE 0

LabelOf(line) == Strip(SubSeq(line, 1, FirstColon(line) - 1))
ValueOf(line) == Strip(SubSeq(line, FirstColon(line) + 1, Len(line)))

\* a line of the form `label : value`
Labelled(line) == FirstColon(line) > 0 /\ LabelOf(line) # <<>> /\ ValueOf(line) # <<>>

\* the label lower-cased with spaces replaced by `_`
LabelKey(line) == [i \in 1..Len(LabelOf(line)) |->
                     IF LabelOf(line)[i] = SP THEN "_" ELSE Lower(LabelOf(line)[i])]

\* C14: in the generic branch every line `label : value` adds the key made of
\* the label lower-cased with spaces replaced by `_`, holding the trimmed value
\* of the last line with that label; no other line adds a key.
C14_GenericKeysFromLabelledLines ==
  (Parsed /\ branch = "Unknown") =>
    LET ls == Lines(content, <<>>)
        labelled == {i \in 1..Len(ls) : Labelled(ls[i])}
        LastOf(k) == CHOOSE j \in labelled :
                       /\ LabelKey(ls[j]) = k
                       /\ \A m \in labelled : LabelKey(ls[m]) = k => m <= j
    IN  /\ \A i \in labelled :
             /\ LabelKey(ls[i]) \in DOMAIN data
             /\ data[LabelKey(ls[i])] = Str(ValueOf(ls[LastOf(LabelKey(ls[i]))]))
        /\ \A k \in DOMAIN data \ {kFilename, kVendor, kIsStack, kMembers} :
             \E i \in labelled : LabelKey(ls[i]) = k

\* C15: whatever `label : value` lines a capture of the generic branch holds,
\* the record has vendor Unknown, is_stack false, members a list of exactly
\* one empty member, and _filename the address taken from the file name.
C15_GenericForcedFields ==
  (Parsed /\ branch = "Unknown") =>
    /\ data[kVendor] = Str(<<"Unknown">>)
    /\ data[kIsStack] = Bool(FALSE)
    /\ data[kMembers] = List(<<EmptyDict>>)
    /\ data[kFilename] = Str(ip_address)

\* the exception that ends a run came from open(), not from the rendering
ReadRaised ==
  /\ pc = "raised" /\ ~doc.raised
  /\ Len(switches) < Len(txt_files)
  /\ ~txt_files[Len(switches) + 1].readable

\* C16: a file of the per-file loop that cannot be opened or read is skipped:
\* the failure does not abort the run, the remaining files are processed and
\* the report is written.
C16_ReadFailureDoesNotAbort ==
  /\ ~ReadRaised
  /\ (pc \in {"saved", "returned"} /\ txt_files # <<>> /\ args.template # MissingTemplate)
       => /\ doc.saved
          /\ Len(switches) = Cardinality({i \in 1..Len(txt_files) : txt_files[i].readable})

\* the message main prints last
LastOut == IF out = <<>> THEN "" ELSE out[Len(out)]

\* C17: when the input path is not a directory, when no file of it has an
\* accepted name, or when the template given does not exist, main reports the
\* condition and returns, writing no document and raising nothing.
C17_MainReportsAndReturns ==
  /\ ~args.input_is_dir =>
       /\ pc \in {"main", "returned"} /\ ~doc.saved
       /\ pc = "returned" => LastOut = "not a directory"
  /\ (args.input_is_dir /\ AcceptedFiles(directory) = <<>>) =>
       /\ pc \in {"main", "returned"} /\ ~doc.saved
       /\ pc = "returned" => LastOut = "no files found"
  /\ (args.input_is_dir /\ AcceptedFiles(directory) # <<>> /\ args.template = MissingTemplate) =>
       /\ pc \in {"main", "listed", "parsing", "returned"} /\ ~doc.saved
       /\ pc = "returned" => LastOut = "template not found"

\* the pattern each vendor's extractor reads the field k with
ScalarPattern(k) ==
  CASE k = kUptime -> re_uptime
    [] k = kNtp -> (CASE branch = "Cisco" -> re_cisco_clock
                      [] branch = "Huawei" -> re_huawei_clock
                      [] OTHER -> re_h3c_clock)
    [] OTHER -> (CASE branch = "Cisco" -> re_cisco_version
                   [] branch = "Huawei" -> re_huawei_version
                   [] OTHER -> re_h3c_version)

\* C18: the record of a vendor extractor, stacked or standalone, always has
\* the keys hostname, uptime, ntp_status and ios_version, each a string: the
\* value its pattern extracts, or "N/A" when the pattern does not match.
C18_ScalarFieldsAlwaysPresent ==
  (Parsed /\ branch \in Vendors) =>
    /\ \A k \in {kHostname, kUptime, kNtp, kIos} : k \in DOMAIN data /\ data[k].t = "str"
    /\ \A k \in {kUptime, kNtp, kIos} :
         k \in DOMAIN data =>
           LET m == Search(T, ScalarPattern(k))
           IN  data[k] = IF ~m.ok THEN NA
                         ELSE IF k = kIos THEN Str(Group(T, m, 1))
                         ELSE Str(Strip(Group(T, m, 1)))

\* generate_multi_word has ended, on the one record of the capture
Rendered == pc \in {"saved", "raised"} /\ tmpl_path = NoTemplate

\* the field k of d holds no real value
Unpopulated(d, k) == k \notin DOMAIN d \/ d[k].t = "none"

\* the cells of the row under the headers show "N/A" for the unpopulated fields
SentinelShown(row, d, keys) ==
  \A i \in 1..Len(keys) : Unpopulated(d, keys[i]) => row[i] = <<"N", "/", "A">>

\* C19: in the report of generate_multi_word every overview, status and
\* member cell whose field is missing or None shows "N/A", no cell shows
\* "None", and rendering a record never raises.
C19_UnpopulatedCellsShowSentinel ==
  Rendered =>
    /\ ~doc.raised /\ doc.saved
    /\ \A n \in 1..Len(doc.body) :
         \A r \in 1..Len(doc.body[n].rows) :
           \A c \in 1..Len(doc.body[n].rows[r]) : doc.body[n].rows[r][c] # <<"None">>
    /\ SentinelShown(doc.body[3].rows[2], data, OverviewKeys)
    /\ SentinelShown(doc.body[5].rows[2], data, StatusKeys)
    /\ \A i \in 1..Len(MemberList) :
         SentinelShown(doc.body[7].rows[i + 1], MemberList[i], MemberKeys)

\* the member tables of the saved body: the header row and one row per member
MemberTablesSaved ==
  {n \in 1..Len(doc.body) :
     /\ doc.body[n].kind = "table"
     /\ Len(doc.body[n].rows) = 1 + Len(MemberList)
     /\ doc.body[n].rows[1] = MemberHeaders}

\* the paragraphs of the template that hold {MEMBER_TABLE}
MemberTableHolders ==
  {n \in 1..Len(TemplateFiles[tmpl_path].body) :
     HoldsMemberTable(TemplateFiles[tmpl_path].body[n])}

\* C20: in template mode, for a device with a non-empty members list, each
\* paragraph holding {MEMBER_TABLE} is replaced by a member table (the header
\* row and one row per member) that is in the body of the saved document.
C20_MemberTableInSavedDocument ==
  (pc = "saved" /\ tmpl_path \in DOMAIN TemplateFiles /\ MemberList # <<>>) =>
    /\ Cardinality(MemberTablesSaved) = Cardinality(MemberTableHolders)
    /\ \A n \in 1..Len(doc.body) : ~HoldsMemberTable(doc.body[n])

\* whether the capture holds the marker command of the extractor that ran
MarkerPresent ==
  CASE branch = "Cisco" -> Contains(T, <<"show", "switch">>)
    [] branch = "Huawei" -> Contains(T, <<"display", "device">>)
    [] OTHER -> Contains(T, <<"display", "irf">>) \/ Contains(T, <<"display", "device">>)

\* the row pattern of the extractor that ran
RowPattern ==
  CASE branch = "Cisco" -> re_cisco_member
    [] branch = "Huawei" -> re_huawei_member
    [] OTHER -> re_h3c_member

\* the rows the cluster path of the extractor that ran reads
ClusterRows == IF MarkerPresent THEN FindIter(T, RowPattern) ELSE <<>>

\* the id the cluster path gives the member of the i-th row
RowId(i) ==
  IF branch = "Cisco" THEN Strip(DropStars(Group(T, ClusterRows[i], 1)))
  ELSE Group(T, ClusterRows[i], 1)

\* C23: in each vendor extractor the standalone path runs exactly when the
\* cluster path left members empty (no marker command, or no matching row):
\* the record then has exactly one member, with id "1", top-level serial
\* number, model, CPU and memory equal to that member's, and is_stack false.
\* When the cluster path produced members the record holds exactly these, one
\* per row with the row's id, is_stack as the cluster path set it, and none
\* of the fields only the standalone path writes.
C23_StandaloneIffNoClusterMembers ==
  (Parsed /\ branch \in Vendors) =>
    /\ ClusterRows = <<>> =>
         /\ Len(MemberList) = 1
         /\ Get(MemberList[1], kId) = Str(<<"1">>)
         /\ Get(data, kSn) = Get(MemberList[1], kSn)
         /\ Get(data, kModel) = Get(MemberList[1], kModel)
         /\ Get(data, kCpuUtil) = Get(MemberList[1], kCpu)
         /\ Get(data, kMemUtil) = Get(MemberList[1], kMemory)
         /\ Get(data, kIsStack) = Bool(FALSE)
    /\ ClusterRows # <<>> =>
         /\ Len(MemberList) = Len(ClusterRows)
         /\ \A i \in 1..Len(MemberList) : Get(MemberList[i], kId) = Str(RowId(i))
         /\ Get(data, kIsStack) = Bool(Len(ClusterRows) > 1)
         /\ branch = "Cisco" => DOMAIN data \cap {kIos, kSn, kModel} = {}
         /\ (branch # "Cisco" /\ FirstMaster(MemberList, 1) = 0)
              => DOMAIN data \cap {kSn, kModel, kCpuUtil, kMemUtil} = {}

\* C23's case: the marker command with no row under it, and the device-wide
\* serial number both in the one member and at the top level
C23_Witness ==
  /\ pc = "done" /\ branch = "Huawei"
  /\ MarkerPresent /\ ClusterRows = <<>>
  /\ Len(MemberList) = 1
  /\ MemberList[1][kSn] = Str(<<"SN1">>)
  /\ data[kSn] = Str(<<"SN1">>)
  /\ data[kIsStack] = Bool(FALSE)

\* the second groups of the matches of pat whose first group is id
FiguresFor(pat, id) ==
  LET ms == FindIter(T, pat)
  IN  {Group(T, ms[j], 2) : j \in {k \in 1..Len(ms) : Group(T, ms[k], 1) = id}}

\* v is a figure of figures, or "N/A" when there is none
FigureOrSentinel(v, figures) ==
  IF figures = {} THEN v = NA ELSE v.t = "str" /\ v.s \in figures

\* C24: after the correlation pass of a cluster extraction each member's
\* serial number (Cisco) or CPU and memory (Huawei, H3C) is a figure the
\* capture reports for the index equal to the member's id, and "N/A" when it
\* reports none for that id.
C24_MembersCorrelatedById ==
  (Parsed /\ branch \in Vendors /\ ClusterRows # <<>>) =>
    \A i \in 1..Len(MemberList) :
      LET id == Get(MemberList[i], kId).s
      IN  IF branch = "Cisco"
          THEN FigureOrSentinel(Get(MemberList[i], kSn), FiguresFor(re_cisco_sn, id))
          ELSE /\ FigureOrSentinel(Get(MemberList[i], kCpu),
                                   FiguresFor(IF branch = "Huawei" THEN re_huawei_cpu
                                              ELSE re_h3c_cpu, id))
               /\ FigureOrSentinel(Get(MemberList[i], kMemory),
                                   FiguresFor(IF branch = "Huawei" THEN re_huawei_mem
                                              ELSE re_h3c_mem, id))

\* C28: through parse_device_info a capture that contains `display device`,
\* in any letter case, is never handed to parse_h3c: it goes to parse_cisco or
\* parse_huawei even when it carries a Comware banner or an <H3C> prompt, so
\* the cluster path of parse_h3c only runs on a capture with `display irf`.
C28_DisplayDeviceNeverReachesH3c ==
  Parsed =>
    /\ Contains(T, <<"display", "device">>) => branch \in {"Cisco", "Huawei"}
    /\ (branch = "H3C" /\ MarkerPresent) => Contains(T, <<"display", "irf">>)

\* C28's case: `display device` in a capture with the <H3C> prompt, parsed
\* by parse_huawei
C28_Witness ==
  /\ pc = "done" /\ branch = "Huawei"
  /\ Contains(T, <<"display", "device">>)
  /\ Search(T, <<LitCS("<"), Lit("h3c"), LitCS(">")>>).ok
  /\ data[kVendor] = Str(<<"Huawei">>)

\* the address at the start of the name of p, as main hands it to
\* parse_device_info
AddressOf(p) == Atoms(ip_pattern_match(p.name).g1, "")

\* main has ended, by a return, by the report or by an exception
Ended == pc \in {"saved", "raised", "returned"}

\* C21: main parses the accepted files one at a time in sorted order: the
\* i-th record comes from the i-th file of the sorted order and has as
\* _filename the address matched at the start of that file's name, and at the
\* end of a run the list holds exactly one record per entry of the directory
\* that is a file with an accepted name.
C21_OneRecordPerAcceptedFile ==
  /\ Len(switches) <= Len(txt_files)
  /\ \A i \in 1..Len(switches) :
       Get(switches[i], kFilename) = Str(AddressOf(txt_files[i]))
  /\ (Ended /\ args.input_is_dir /\ AcceptedFiles(directory) # <<>>) =>
       /\ txt_files = sort_by_ip(AcceptedFiles(directory))
       /\ Len(switches) = Len(txt_files)

\* the body replace_template_multi would save if every page took values from
\* its own record only, the report time being the one shared value
OwnRecordBody ==
  replace_in_content_part(TemplatePages(TemplateFiles[tmpl_path].body, switches, 1, <<>>),
                          (<<"REPORT", "_", "TIME">> :> report_time))

\* C27: in template mode every placeholder on the page of device i is
\* replaced by a value of the record of device i (or "N/A") or left
\* untouched, never by a value of another device's record: the saved body is
\* the one in which each page was filled from its own record and only
\* {REPORT_TIME} was filled for all pages alike.
C27_PagesFilledFromOwnRecord ==
  (pc = "saved" /\ tmpl_path \in DOMAIN TemplateFiles) => doc.body = OwnRecordBody


\* the line of a command echoed after the prompt: the token of the prompt at
\* the start of the line, its terminator, and the first word of the command
CommandWords == {"show", "display"}

EchoedHash ==
  <<Bol, Grp(Plus(NonSpace \ {"#"}), 1), LitCS("#"), LitIn(CommandWords)>>

EchoedAngle ==
  <<Bol, LitCS("<"), Grp(Plus(NonSpace \ {">"}), 1), LitCS(">"), LitIn(CommandWords)>>

EchoedPattern == IF branch = "Cisco" THEN EchoedHash ELSE EchoedAngle

\* the first line of the capture on which a command is echoed after the prompt
EchoedLine == Search(T, EchoedPattern)

\* C26: the prompt strategy yields the token before the terminator of the
\* prompt on a line where a command is echoed; a `#` or a `<...>` elsewhere
\* in the capture, before that line, does not determine the hostname.
C26_HostnameFromEchoedPrompt ==
  (Parsed /\ branch \in Vendors /\ EchoedLine.ok) =>
    Get(data, kHostname) = Str(Group(T, EchoedLine, 1))

\* the marker command of the extractor that ran, where the capture names it
MarkerPattern ==
  CASE branch = "Cisco" -> Phrase(<<"show", "switch">>)
    [] branch = "Huawei" -> Phrase(<<"display", "device">>)
    [] OTHER -> <<Lit("display"), One({SP}), LitIn({"irf", "device"})>>

\* the output of the marker command named at position from: the text from
\* there to the line of the next echoed command, or to the end of the capture
MarkerOutput(from) ==
  LET next == SearchFrom(T, EchoedPattern, from)
  IN  SubSeq(content, from, IF next.ok THEN next.start - 1 ELSE Len(content))

\* the first groups of the matches of pat in the outputs of the marker
\* command, for its occurrences ms[j..], in order
RECURSIVE IndicesIn(_, _, _)
IndicesIn(ms, j, pat) ==
  IF j > Len(ms) THEN <<>>
  ELSE LET o    == Txt(MarkerOutput(ms[j].start))
           rows == FindIter(o, pat)
       IN  [i \in 1..Len(rows) |-> Group(o, rows[i], 1)] \o IndicesIn(ms, j + 1, pat)

MarkerRowIndices == IndicesIn(FindIter(T, MarkerPattern), 1, RowPattern)

\* the members built from rows: they hold the MAC address (Cisco) or the
\* role (Huawei, H3C) of a row, which the single standalone member never holds
RowMembers ==
  SelectSeq(MemberList,
            LAMBDA m : IF branch = "Cisco" THEN kMac \in DOMAIN m ELSE kRole \in DOMAIN m)

\* C25: the members built from rows are the rows of the output of the marker
\* command, in order; a line of the shape of a row in the output of another
\* command yields no member.
C25_RowsFromMarkerOutputOnly ==
  (Parsed /\ branch \in Vendors /\ MarkerPresent) =>
    /\ Len(RowMembers) = Len(MarkerRowIndices)
    /\ \A i \in 1..Len(RowMembers) :
         Get(RowMembers[i], kId) =
           Str(IF branch = "Cisco" THEN Strip(DropStars(MarkerRowIndices[i]))
               ELSE MarkerRowIndices[i])

\* a `show switch` row whose index carries the mark of the active member
MarkedRow ==
  <<Bol, Star(WS), LitCS("*"), Grp(One(Digit1), 1), Plus(WS), Plus(NonSpace), Plus(WS),
    Grp(Plus(WordCh \cup {"-"}), 2), Plus(WS), Plus(HexMac), Plus(WS), Plus(WordCh)>>

\* the marked rows of the capture, each with its index and its model
MarkedRows ==
  LET ms == FindIter(T, MarkedRow)
  IN  {[id |-> Group(T, ms[j], 1), model |-> Group(T, ms[j], 2)] : j \in 1..Len(ms)}

\* C29: a `show switch` row `*1 ...` yields a member of id "1", with the
\* model of the row and the serial number reported for switch 1, and every
\* member id of the Cisco extractor is a non-empty string of digits.
C29_MarkedRowYieldsItsMember ==
  (Parsed /\ branch = "Cisco" /\ MarkerPresent) =>
    /\ \A r \in MarkedRows :
         \E i \in 1..Len(MemberList) :
           /\ Get(MemberList[i], kId) = Str(r.id)
           /\ Get(MemberList[i], kModel) = Str(r.model)
           /\ FigureOrSentinel(Get(MemberList[i], kSn), FiguresFor(re_cisco_sn, r.id))
    /\ \A i \in 1..Len(MemberList) :
         LET id == Get(MemberList[i], kId)
         IN  id.t = "str" /\ id.s # <<>> /\ \A n \in 1..Len(id.s) : id.s[n] \in Digits


\* the lines of a text: the atoms between its newlines
RECURSIVE LinesOf(_, _)
LinesOf(text, cur) ==
  IF text = <<>> THEN (IF cur = <<>> THEN <<>> ELSE <<cur>>)
  ELSE IF Head(text) = NL THEN <<cur>> \o LinesOf(Tail(text), <<>>)
       ELSE LinesOf(Tail(text), Append(cur, Head(text)))

\* the number of atoms of line, from position i on, that spell a device name
RECURSIVE NameLen(_, _)
NameLen(line, i) ==
  IF i <= Len(line) /\ line[i] \in HostCh THEN 1 + NameLen(line, i + 1) ELSE 0

\* the number of atoms of the prompt line starts with, 0 when it starts with
\* none: a device name ended by `#` or `>`, or a device name in angle
\* brackets (the prompt of the user view of Huawei and H3C devices)
PromptLen(line) ==
  LET n == NameLen(line, 1)
      m == NameLen(line, 2)
  IN  IF n > 0 /\ n < Len(line) /\ line[n + 1] \in {"#", ">"} THEN n + 1
      ELSE IF line # <<>> /\ line[1] = "<" /\ m > 0 /\ m + 1 < Len(line)
                /\ line[m + 2] = ">"
           THEN m + 2
      ELSE 0

\* the command of a prompt line: the line with the prompt removed
CommandOf(line) == Strip(SubSeq(line, PromptLen(line) + 1, Len(line)))

\* the lines i.. up to the next prompt line, each with its newline
RECURSIVE TextUntilPrompt(_, _)
TextUntilPrompt(lines, i) ==
  IF i > Len(lines) \/ PromptLen(lines[i]) > 0 THEN <<>>
  ELSE lines[i] \o <<NL>> \o TextUntilPrompt(lines, i + 1)

\* one pair for each prompt line of the lines i.. that carries a command
RECURSIVE PairsOf(_, _)
PairsOf(lines, i) ==
  IF i > Len(lines) THEN <<>>
  ELSE (IF PromptLen(lines[i]) > 0 /\ CommandOf(lines[i]) # <<>>
        THEN << <<CommandOf(lines[i]), Strip(TextUntilPrompt(lines, i + 1))>> >>
        ELSE <<>>) \o PairsOf(lines, i + 1)

\* C30: split_commands returns, in order, one (command, output) pair for each
\* prompt line that carries a command: the command is the line with the
\* prompt removed, the output is the text up to the next prompt line or the
\* end, both without the surrounding white space; the text before the first
\* prompt line and the text after a prompt line with no command are in no
\* pair, and a text with no prompt line gives the empty list.
C30_OnePairPerPromptLine ==
  pc = "done" => commands = PairsOf(LinesOf(raw_text, <<>>), 1)


\* the first element written for a device: its heading, or the paragraph
\* that says why the device is skipped; both start with the word for device
IsDeviceStart(e) ==
  /\ e.kind \in {"heading", "paragraph"}
  /\ e.runs # <<>>
  /\ e.runs[1] # <<>>
  /\ e.runs[1][1] = "Device"

DeviceStarts == {n \in 1..Len(doc.body) : IsDeviceStart(doc.body[n])}

\* the number of page breaks among the elements a..b of the saved body
BreaksIn(a, b) == Cardinality({n \in a..b : doc.body[n].kind = "page_break"})

\* C22: in the saved report every device has its content, the content of
\* two consecutive devices is separated by exactly one page break, whatever
\* happened to either of them (a device that was skipped or has no command
\* output included), and no page break precedes the content of the first.
C22_OnePageBreakBetweenDevices ==
  pc = "saved" =>
    /\ Cardinality(DeviceStarts) = Len(txt_files)
    /\ \A s \in DeviceStarts :
         LET later == {n \in DeviceStarts : n > s}
         IN  IF later = {} THEN TRUE
             ELSE BreaksIn(s, (CHOOSE n \in later : \A o \in later : n <= o) - 1) = 1
    /\ \A s \in DeviceStarts : BreaksIn(1, s - 1) = 0 \/ \E n \in DeviceStarts : n < s

====
